---- MODULE Spec2Model ----
(***************************************************************************)
(* A model of feed-agent's ingestion-to-digest pipeline: the SQLite        *)
(* article store (src/storage/db.py), the TTL response cache               *)
(* (src/storage/cache.py), the summarizer (src/analyze/summarizer.py), the *)
(* feed fetcher (src/ingest/feeds.py), run_analysis with the digest        *)
(* builder (src/analyze) and the ingestion loop that feeds the store.      *)
(*                                                                         *)
(* Every component has its own group of variables and its own              *)
(* specification; a specification keeps the other groups at their idle     *)
(* value.                                                                  *)
(*                                                                         *)
(* SQLite is modelled at the level its callers can observe: one write      *)
(* transaction at a time (the database write lock), whose changes become   *)
(* visible to other connections at commit.  A connection that finds the    *)
(* lock taken waits (the busy handler); the wall-clock busy timeout is     *)
(* outside this untimed model.                                             *)
(***************************************************************************)
EXTENDS Integers, Sequences, FiniteSets, TLC

VARIABLES
    \* ---- article store (Database): the articles table
    articles,   \* committed rows of the articles table
    pending,    \* the open write transaction's view of the table (of the
                \* cache table in CacheTxnSpec)
    lock,       \* caller holding the database write lock, 0 when free
    calls,      \* per concurrent caller: the save_article call it is in
                \* (the CacheStore call in CacheTxnSpec)
    last,       \* the Database call that returned last, with its result
    \* ---- ingestion (run_ingestion)
    feeds,      \* the FeedResults the fetch stage delivers, the same every run
    ing,        \* the run in progress: its number, position and counters
    reports,    \* the results of the runs that have returned
    feed_status, \* the rows of the feed_status table, by feed_url
    \* ---- response cache (CacheStore): the cache table and the clock
    cache,      \* rows of the cache table
    now,        \* datetime.now(timezone.utc), in ticks
    lastc,      \* the CacheStore call its caller made last, with its result
    \* ---- analysis (make_cache_key, Summarizer)
    keylog,     \* the last make_cache_key calls, with their results
    sum,        \* the summarize_article call in progress
    batch,      \* the summarize_batch call in progress
    \* ---- feed fetching (fetch_feed)
    fetch,      \* the fetch_feed call in progress
    fall,       \* the fetch_all_feeds call in progress
    \* ---- analysis runs (run_analysis)
    runs,       \* per run_analysis run: its position, selection and results
    digest,     \* the _build_category_digest call in progress
    build,      \* the build_digest call in progress
    setlog,     \* what the last CacheStore.set did to the rows it found
    \* ---- scheduler (install_cron)
    crontab,    \* the text of the crontab of the user: lines and newlines
    cron        \* the install_cron call that returned last, the crontab it
                \* found, and the last plan installed for each label

storeVars == <<articles, pending, lock, calls, last>>
ingestVars == <<feeds, ing, reports, feed_status>>
cacheVars == <<cache, now, lastc>>
analyzeVars == <<keylog, sum, batch>>
fetchVars == <<fetch, fall>>
runVars == <<runs, digest, build, setlog>>
schedVars == <<crontab, cron>>
vars == <<articles, pending, lock, calls, last, feeds, ing, reports, feed_status,
          cache, now, lastc, keylog, sum, batch, fetch, fall, runs,
          digest, build, setlog, crontab, cron>>

\* ------------------------------------------------------------------ bounds
MaxCallers == 3
MaxFeeds == 2
MaxEntries == 2
DefaultTtlDays == 1
MaxNow == 4
MaxTokens == 2
MaxLen == 2
MaxArticles == 3
MaxConfigured == 3
MaxFailures == 3
MaxUserLines == 3

\* ------------------------------------------------------------ article store
Urls == {"u1", "u2"}
Ids == {"i1", "i2"}
Titles == {"t1", "t2"}

PENDING == "pending"
SUMMARIZED == "summarized"
FAILED == "failed"
ArticleStatus == {PENDING, SUMMARIZED, FAILED}

None == "None"

\* A timezone-aware datetime: the instant t, in hours, and the UTC offset
\* off, in hours, it is written with.
Datetime(t, off) == [t |-> t, off |-> off]

\* The publish time of the articles whose publish time plays no part.
DefaultPublished == Datetime(0, 0)

\* Article with its publish time: status PENDING, no summary, no takeaways,
\* no action items.
ArticleAt(id, url, title, published) ==
    [id |-> id, url |-> url, title |-> title, published |-> published,
     status |-> PENDING, summary |-> None, key_takeaways |-> <<>>,
     action_items |-> <<>>]

\* Article as fetch_feed builds it.
Article(id, url, title) == ArticleAt(id, url, title, DefaultPublished)

\* generate_article_id: the first 16 hex digits of sha256(url); distinct
\* URLs of the model get distinct ids (sha256 taken as collision free).
generate_article_id(url) == IF url = "u1" THEN "i1" ELSE "i2"

\* The uniqueness constraints of the articles table: id PRIMARY KEY, url UNIQUE.
ConflictsIdOnly(table, row) ==
    \E r \in table : r.id = row.id

Conflicts(table, row) ==
    \E r \in table : r.id = row.id \/ r.url = row.url

\* INSERT OR REPLACE in place of INSERT OR IGNORE: the conflicting rows are
\* deleted, the new row is inserted, rowcount is 1.
SaveStatementReplace(table, row) ==
    [table |-> {r \in table : r.id # row.id /\ r.url # row.url} \cup {row},
     rowcount |-> 1, error |-> FALSE]

\* INSERT OR IGNORE INTO articles (...) VALUES (...): the row is added unless
\* it violates a uniqueness constraint, and then the statement does nothing:
\* no row, rowcount 0, no IntegrityError.
SaveStatement(table, row) ==
    IF Conflicts(table, row)
        THEN [table |-> table, rowcount |-> 0, error |-> FALSE]
        ELSE [table |-> table \cup {row}, rowcount |-> 1, error |-> FALSE]

\* An UPDATE that adds the takeaways and the action items to the stored ones.
UpdateSummaryRowsAppending(table, id, s) ==
    {IF r.id = id
        THEN [r EXCEPT !.summary = s.summary,
                       !.key_takeaways = @ \o s.key_takeaways,
                       !.action_items = @ \o s.action_items,
                       !.status = SUMMARIZED]
        ELSE r : r \in table}

\* UPDATE articles SET summary, key_takeaways, action_items,
\* status = 'summarized' WHERE id = ?
UpdateSummaryRows(table, id, s) ==
    {IF r.id = id
        THEN [r EXCEPT !.summary = s.summary,
                       !.key_takeaways = s.key_takeaways,
                       !.action_items = s.action_items,
                       !.status = SUMMARIZED]
        ELSE r : r \in table}

\* UPDATE articles SET status = ? WHERE id = ?
UpdateStatusRows(table, id, status) ==
    {IF r.id = id THEN [r EXCEPT !.status = status] ELSE r : r \in table}

NoArticle == Article("", "", "")
NoSummary == [summary |-> None, key_takeaways |-> <<>>, action_items |-> <<>>]
SummaryInputs ==
    {[summary |-> "s1", key_takeaways |-> <<"k1">>, action_items |-> <<"a1">>],
     [summary |-> "", key_takeaways |-> <<>>, action_items |-> <<>>]}

\* The value save_article returns: cursor.rowcount > 0.
SaveReturnNonNegative(rowcount) == IF rowcount >= 0 THEN "True" ELSE "False"

SaveReturn(rowcount) == IF rowcount > 0 THEN "True" ELSE "False"

NoCall == [op |-> "none", article |-> NoArticle, id |-> "", status |-> "",
           s |-> NoSummary, ret |-> "None", limit |-> 0,
           since |-> DefaultPublished, rows |-> <<>>, twice |-> FALSE,
           n |-> 0]

\* ---- the Database calls, each one transaction (StoreSpec).  The write lock
\* admits one write transaction at a time (see Execute and Leave below), so
\* calls made from any number of threads take effect one after the other.
\* last.n alternates with every call, which tells a call from no call.

\* Database.save_article(article); an exception inside the `with` block is
\* rolled back and raised again.
save_article(a) ==
    LET st == SaveStatement(articles, a) IN
    /\ articles' = IF st.error THEN articles ELSE st.table
    /\ last' = [NoCall EXCEPT !.op = "save_article", !.article = a,
                              !.ret = IF st.error THEN "raised"
                                                  ELSE SaveReturn(st.rowcount),
                              !.n = 1 - last.n]
    /\ UNCHANGED <<pending, lock, calls>>

\* Database.update_article_status(article_id, status)
update_article_status(id, st) ==
    /\ articles' = UpdateStatusRows(articles, id, st)
    /\ last' = [NoCall EXCEPT !.op = "update_article_status", !.id = id,
                              !.status = st,
                              !.twice = (/\ last.op = "update_article_status"
                                         /\ last.id = id
                                         /\ last.status = st),
                              !.n = 1 - last.n]
    /\ UNCHANGED <<pending, lock, calls>>

\* Database.update_article_summary(article_id, summary, key_takeaways, ...)
update_article_summary(id, s) ==
    /\ articles' = UpdateSummaryRows(articles, id, s)
    /\ last' = [NoCall EXCEPT !.op = "update_article_summary", !.id = id,
                              !.s = s,
                              !.twice = (/\ last.op = "update_article_summary"
                                         /\ last.id = id
                                         /\ last.s = s),
                              !.n = 1 - last.n]
    /\ UNCHANGED <<pending, lock, calls>>

\* ---- concurrent save_article calls of one URL (SaveSpec): the steps of
\* `with self._connection() as conn: cursor = conn.execute(INSERT OR IGNORE)`

Callers == 1..Len(calls)

\* conn.execute: the statement starts the write transaction (it waits for the
\* write lock), inserts into the transaction's view and sets cursor.rowcount.
Execute(t) ==
    LET st == SaveStatement(articles, calls[t].article) IN
    /\ calls[t].pc = "called"
    /\ lock = 0
    /\ lock' = t
    /\ pending' = st.table
    /\ calls' = [calls EXCEPT ![t].pc = "executed",
                              ![t].rowcount = st.rowcount,
                              ![t].error = st.error]
    /\ UNCHANGED <<articles, last>>

\* Leaving the `with` block.  No exception: conn.commit() publishes the
\* transaction, conn.close() frees the lock, save_article returns
\* rowcount > 0.  An exception: conn.rollback(), conn.close(), raise.
Leave(t) ==
    /\ calls[t].pc = "executed"
    /\ lock = t
    /\ lock' = 0
    /\ IF calls[t].error
          THEN /\ articles' = articles
               /\ pending' = articles
               /\ calls' = [calls EXCEPT ![t].pc = "raised"]
          ELSE /\ articles' = pending
               /\ pending' = pending
               /\ calls' = [calls EXCEPT ![t].pc = "returned",
                                         ![t].ret = SaveReturn(calls[t].rowcount)]
    /\ UNCHANGED last

\* A row some earlier run stored, in any state the pipeline leaves it in.
StoredRows(url) ==
    {[Article(generate_article_id(url), url, title) EXCEPT
            !.status = st, !.summary = IF st = SUMMARIZED THEN "s1" ELSE None]
        : title \in Titles, st \in ArticleStatus}

\* ------------------------------------------------------------- ingestion
\* run_ingestion(db): for every candidate article of every successful
\* FeedResult, save_article; articles_found counts the candidates and
\* articles_new those whose save_article returned True.

\* A FeedResult: a failed fetch carries no articles.
FeedResults ==
    {[success |-> FALSE, articles |-> <<>>]} \cup
    {[success |-> TRUE,
      articles |-> [i \in DOMAIN us |->
                        Article(generate_article_id(us[i]), us[i], "t1")]]
        : us \in UNION {[1..m -> Urls] : m \in 0..MaxEntries}}

RECURSIVE Candidates(_)
\* The candidates in the order run_ingestion meets them.
Candidates(results) ==
    IF results = <<>> THEN <<>>
    ELSE (IF Head(results).success THEN Head(results).articles ELSE <<>>)
            \o Candidates(Tail(results))

StoredUrls == {r.url : r \in articles}

\* One turn of the loop: the insert of the next candidate and the counters.
IngestSave ==
    /\ ing.run \in {1, 2}
    /\ ing.k < Len(Candidates(feeds))
    /\ save_article(Candidates(feeds)[ing.k + 1])
    /\ ing' = [ing EXCEPT !.k = @ + 1,
                          !.found = @ + 1,
                          !.new = IF last'.ret = "True" THEN @ + 1 ELSE @]
    /\ UNCHANGED <<feeds, reports, feed_status, schedVars, cacheVars, analyzeVars, fetchVars, runVars>>

\* The loop is over: run_ingestion returns its result; the next run starts.
IngestReturn ==
    /\ ing.run \in {1, 2}
    /\ ing.k = Len(Candidates(feeds))
    /\ reports' = Append(reports,
            [articles_found |-> ing.found, articles_new |-> ing.new,
             urls_before |-> ing.urls0, urls_after |-> StoredUrls])
    /\ ing' = [run |-> ing.run + 1, k |-> 0, found |-> 0, new |-> 0,
               urls0 |-> StoredUrls]
    /\ UNCHANGED <<feeds, feed_status, schedVars, storeVars, cacheVars, analyzeVars, fetchVars, runVars>>

\* --------------------------------------------------------- response cache
\* Time is counted in ticks, TicksPerDay to the day.  A tick that starts a
\* day stands for an instant whose microsecond field is 0, the other ticks
\* of the day for instants whose microsecond field is not.
TicksPerDay == 2
StartTick == TicksPerDay
Ticks == 0..(MaxNow + TicksPerDay * (DefaultTtlDays + 1))

\* datetime.isoformat() of a UTC instant, as the character codes of
\* "<date and time>[.<fraction>]+00:00": the fraction is left out when the
\* microsecond is 0.  Digits are 48..57, '+' is 43, '.' is 46.
isoformat(t) ==
    LET day == t \div TicksPerDay
        frac == t % TicksPerDay
    IN  <<48 + (day \div 10), 48 + (day % 10)>> \o
        (IF frac = 0 THEN <<43>> ELSE <<46, 48 + frac, 43>>)

\* SQLite's comparison of two TEXT values (BINARY collation: memcmp, and a
\* proper prefix is the smaller).
TextLess(a, b) ==
    \E i \in 1..Len(b) :
        /\ \A j \in 1..(i - 1) : j <= Len(a) /\ a[j] = b[j]
        /\ \/ i = Len(a) + 1
           \/ i <= Len(a) /\ a[i] < b[i]

\* The instant an ISO text stands for.
FromIso(text) == CHOOSE t \in Ticks : isoformat(t) = text

\* The JSON values the pipeline caches: SummaryResult dictionaries.
SummaryResult(success, article_id, summary, key_takeaways, action_items, tokens_used, error) ==
    [success |-> success, article_id |-> article_id, summary |-> summary,
     key_takeaways |-> key_takeaways, action_items |-> action_items,
     tokens_used |-> tokens_used, error |-> error]

Tok(t, v) == [t |-> t, v |-> v]
StrOrNull(x) == IF x = None THEN Tok("null", "") ELSE Tok("str", x)
List(l) == <<Tok("[", "")>> \o [i \in 1..Len(l) |-> Tok("str", l[i])]
           \o <<Tok("]", "")>>

\* json.dumps(value) that loses the items of the lists.
json_dumps_NoList(v) ==
    <<Tok("{", ""), Tok(IF v.success THEN "true" ELSE "false", ""),
      Tok("str", v.article_id), StrOrNull(v.summary)>>
    \o List(<<>>) \o List(<<>>)
    \o <<Tok("int", ToString(v.tokens_used)), StrOrNull(v.error),
         Tok("}", "")>>

\* json.dumps(value): the text, as its tokens.
json_dumps(v) ==
    <<Tok("{", ""), Tok(IF v.success THEN "true" ELSE "false", ""),
      Tok("str", v.article_id), StrOrNull(v.summary)>>
    \o List(v.key_takeaways) \o List(v.action_items)
    \o <<Tok("int", ToString(v.tokens_used)), StrOrNull(v.error),
         Tok("}", "")>>

NullOrStr(tok) == IF tok.t = "null" THEN None ELSE tok.v

\* json.loads(text) that leaves the second list empty.
json_loads_NoActions(text) ==
    LET closes == {i \in 1..Len(text) : text[i].t = "]"}
        c1 == CHOOSE i \in closes : \A j \in closes : i <= j
        c2 == CHOOSE i \in closes : \A j \in closes : j <= i
    IN  [success |-> text[2].t = "true",
         article_id |-> text[3].v,
         summary |-> NullOrStr(text[4]),
         key_takeaways |-> [i \in 1..(c1 - 6) |-> text[5 + i].v],
         action_items |-> <<>>,
         tokens_used |-> CHOOSE n \in 0..MaxTokens : ToString(n) = text[c2 + 1].v,
         error |-> NullOrStr(text[c2 + 2])]

\* json.loads(text)
json_loads(text) ==
    LET closes == {i \in 1..Len(text) : text[i].t = "]"}
        c1 == CHOOSE i \in closes : \A j \in closes : i <= j
        c2 == CHOOSE i \in closes : \A j \in closes : j <= i
    IN  [success |-> text[2].t = "true",
         article_id |-> text[3].v,
         summary |-> NullOrStr(text[4]),
         key_takeaways |-> [i \in 1..(c1 - 6) |-> text[5 + i].v],
         action_items |-> [i \in 1..(c2 - c1 - 2) |-> text[c1 + 1 + i].v],
         tokens_used |-> CHOOSE n \in 0..MaxTokens : ToString(n) = text[c2 + 1].v,
         error |-> NullOrStr(text[c2 + 2])]

\* An optional value: Absent is Python's None, Some(v) is the value v.
Absent == <<>>
Some(v) == <<v>>

\* SELECT value FROM cache WHERE kind = ? AND key = ?: the expiry forgotten.
CacheGetIgnoresExpiry(table, kind, key, t) ==
    LET rows == {r \in table : r.kind = kind /\ r.key = key}
    IN  IF rows = {} THEN Absent
        ELSE Some(json_loads((CHOOSE r \in rows : TRUE).value))

\* CacheStore.get at instant t:
\* SELECT value FROM cache WHERE kind = ? AND key = ? AND expires_at > ?
CacheGet(table, kind, key, t) ==
    LET rows == {r \in table : /\ r.kind = kind
                               /\ r.key = key
                               /\ TextLess(isoformat(t), r.expires_at)}
    IN  IF rows = {} THEN Absent
        ELSE Some(json_loads((CHOOSE r \in rows : TRUE).value))

\* INSERT OR IGNORE INTO cache: the row of the same kind and key stays.
CacheInsertOrIgnore(table, row) ==
    IF \E r \in table : r.kind = row.kind /\ r.key = row.key
    THEN table
    ELSE table \cup {row}

\* INSERT OR REPLACE INTO cache: (kind, key) is the primary key.
CacheReplace(table, row) ==
    {r \in table : ~(r.kind = row.kind /\ r.key = row.key)} \cup {row}

\* A cleanup that keeps the rows expiring at the very instant of the
\* cleanup: DELETE FROM cache WHERE expires_at < ?
CacheDeleteExpiredBefore(table, t) ==
    {r \in table : ~TextLess(r.expires_at, isoformat(t))}

\* A cleanup that deletes nothing.
CacheKeepExpired(table, t) == table

\* DELETE FROM cache WHERE expires_at <= ?
CacheDeleteExpired(table, t) ==
    {r \in table : TextLess(isoformat(t), r.expires_at)}

\* CacheStore.set: expires_at is taken at instant t1, the cleanup runs at
\* instant t2 >= t1, both statements in one transaction.
CacheSetRows(table, kind, key, value, ttl_days, t1, t2) ==
    LET ttl == IF ttl_days # Absent THEN ttl_days[1] ELSE DefaultTtlDays
        expires_at == t1 + ttl * TicksPerDay
    IN  CacheDeleteExpired(
            CacheReplace(table, [kind |-> kind, key |-> key,
                                 value |-> json_dumps(value),
                                 expires_at |-> isoformat(expires_at)]),
            t2)

\* A clear that takes no notice of the kind.
CacheClearRowsOfAnyKind(table, kind) == {}

\* CacheStore.clear: `if kind:` takes None and the empty string alike.
CacheClearRows(table, kind) ==
    IF kind # None /\ kind # "" THEN {r \in table : r.kind # kind} ELSE {}

NoCacheCall == [op |-> "none", kind |-> "", key |-> "", value |-> Absent,
                ttl_days |-> Absent, ret |-> Absent, count |-> 0,
                total_entries |-> 0, expired_entries |-> 0, prev |-> Absent,
                n |-> 0]

\* lastc is the call that has just returned: it is forgotten when time
\* passes.  lastc.n alternates with every call, which tells a call from no
\* call.  Of a get, prev is the set call it follows at once, if it does.
CacheCall(op) == [NoCacheCall EXCEPT !.op = op, !.n = 1 - lastc.n]

\* CacheStore.get(kind, key)
get(kind, key) ==
    /\ lastc' = [CacheCall("get") EXCEPT !.kind = kind, !.key = key,
                        !.ret = CacheGet(cache, kind, key, now),
                        !.prev = IF lastc.op = "set"
                                 THEN Some([kind |-> lastc.kind,
                                            key |-> lastc.key,
                                            value |-> lastc.value,
                                            ttl_days |-> lastc.ttl_days])
                                 ELSE Absent]
    /\ UNCHANGED <<cache, now>>

\* CacheStore.set(kind, key, value, ttl_days); dt is the time that passes
\* between the two readings of the clock.
set(kind, key, value, ttl_days, dt) ==
    /\ now + dt <= MaxNow
    /\ cache' = CacheSetRows(cache, kind, key, value, ttl_days, now, now + dt)
    /\ now' = now + dt
    /\ lastc' = [CacheCall("set") EXCEPT !.kind = kind, !.key = key,
                        !.value = Some(value), !.ttl_days = ttl_days]

\* CacheStore.clear(kind)
clear(kind) ==
    /\ cache' = CacheClearRows(cache, kind)
    /\ lastc' = [CacheCall("clear") EXCEPT !.kind = kind,
                        !.count = Cardinality(cache \ CacheClearRows(cache, kind))]
    /\ UNCHANGED now

\* CacheStore.stats()
stats ==
    /\ lastc' = [CacheCall("stats") EXCEPT
            !.total_entries = Cardinality(cache),
            !.expired_entries =
                Cardinality(cache \ CacheDeleteExpired(cache, now))]
    /\ UNCHANGED <<cache, now>>

\* Time passes.
Tick ==
    /\ now < MaxNow
    /\ now' = now + 1
    /\ lastc' = NoCacheCall
    /\ UNCHANGED cache

\* What a set did to the rows it found: replaced tells that its kind and
\* key had an unexpired row of another value, cleaned that a row of another
\* kind or key was in the table before it and is not after it.
NoSetLog == [replaced |-> FALSE, cleaned |-> FALSE]
SetLog(before, after, kind, key, t) ==
    [replaced |-> \E r \in before \ after :
                    /\ r.kind = kind /\ r.key = key
                    /\ TextLess(isoformat(t), r.expires_at)
                    /\ \A r2 \in after \ before : r2.value # r.value,
     cleaned |-> \E r \in before \ after : ~(r.kind = kind /\ r.key = key)]

Kinds == {"summary", "other"}
Keys == {"k1", "k2"}
\* The (kind, key) pairs the callers use.
Slots == {<<"summary", "k1">>, <<"summary", "k2">>, <<"other", "k1">>}
Values ==
    {SummaryResult(TRUE, "i1", "s1", <<"k1">>, <<"a1">>, MaxTokens, None),
     SummaryResult(FALSE, "i1", None, <<>>, <<>>, 0, "e1")}
TtlDays == {Some(-1), Some(0), Some(1), Absent}
GivenTtlDays == {Some(-1), Some(0), Some(1)}

\* ---- concurrent CacheStore calls (CacheTxnSpec): every call opens its own
\* connection; the first write statement of a call starts the transaction
\* and takes the write lock of the database, commit publishes it.  cache is
\* the committed table, pending the view of the open transaction.
TxnCallers == 1..(MaxCallers - 1)
TxnSlots == {<<"summary", "k1">>, <<"other", "k1">>}
\* The set calls made: two values contend for one pair, one of them also
\* with ttl_days = 0, and a second pair holds a row that can expire.
TxnSets ==
    { [kind |-> "summary", key |-> "k1", value |-> v, ttl_days |-> 1] : v \in Values }
    \cup { [kind |-> "summary", key |-> "k1", value |-> CHOOSE v \in Values : TRUE, ttl_days |-> 0],
           [kind |-> "other", key |-> "k1", value |-> CHOOSE v \in Values : TRUE, ttl_days |-> 1] }

NoTxnCall == [pc |-> "idle", op |-> "none", kind |-> "", key |-> "",
              value |-> Absent, ttl_days |-> 0, expires_at |-> 0,
              cleaned_at |-> 0]

\* The committed table after a statement of an open transaction, were
\* every statement committed on its own (isolation_level=None).
AfterStatementAutocommit(committed, work) == work

\* The committed table after a statement of an open transaction: the
\* statement changes the view of the transaction only (sqlite3's implicit
\* BEGIN before INSERT and DELETE; conn.commit() comes at the end of the
\* with block).
AfterStatement(committed, work) == committed

\* The row a set call writes.
TxnRow(call) ==
    [kind |-> call.kind, key |-> call.key, value |-> json_dumps(call.value[1]),
     expires_at |-> isoformat(call.expires_at)]

\* set(kind, key, value, ttl_days) is called: expires_at is computed.
TxnSet(c, kind, key, value, ttl_days) ==
    /\ calls[c].pc = "idle"
    /\ calls' = [calls EXCEPT ![c] =
            [NoTxnCall EXCEPT !.pc = "insert", !.op = "set", !.kind = kind,
                !.key = key, !.value = Some(value), !.ttl_days = ttl_days,
                !.expires_at = now + ttl_days * TicksPerDay]]
    /\ UNCHANGED <<cache, pending, lock, now, lastc>>

\* INSERT OR REPLACE: the transaction begins, the write lock is taken.
TxnInsert(c) ==
    /\ calls[c].pc = "insert"
    /\ lock = 0
    /\ lock' = c
    /\ pending' = CacheReplace(cache, TxnRow(calls[c]))
    /\ cache' = AfterStatement(cache, pending')
    /\ calls' = [calls EXCEPT ![c].pc = "cleanup"]
    /\ UNCHANGED <<now, lastc>>

\* DELETE FROM cache WHERE expires_at <= now, in the same transaction.
TxnCleanup(c) ==
    /\ calls[c].pc = "cleanup"
    /\ pending' = CacheDeleteExpired(pending, now)
    /\ cache' = AfterStatement(cache, pending')
    /\ calls' = [calls EXCEPT ![c].pc = "commit", ![c].cleaned_at = now]
    /\ UNCHANGED <<lock, now, lastc>>

\* clear(kind) is called.
TxnClear(c, kind) ==
    /\ calls[c].pc = "idle"
    /\ calls' = [calls EXCEPT ![c] =
            [NoTxnCall EXCEPT !.pc = "delete", !.op = "clear", !.kind = kind]]
    /\ UNCHANGED <<cache, pending, lock, now, lastc>>

\* DELETE FROM cache [WHERE kind = ?]
TxnDelete(c) ==
    /\ calls[c].pc = "delete"
    /\ lock = 0
    /\ lock' = c
    /\ pending' = CacheClearRows(cache, calls[c].kind)
    /\ cache' = AfterStatement(cache, pending')
    /\ calls' = [calls EXCEPT ![c].pc = "commit"]
    /\ UNCHANGED <<now, lastc>>

\* The write lock is held by another connection for the 30 s of the busy
\* timeout: the statement raises OperationalError, the call raises.
TxnBusy(c) ==
    /\ calls[c].pc \in {"insert", "delete"}
    /\ lock # 0
    /\ calls' = [calls EXCEPT ![c] = NoTxnCall]
    /\ UNCHANGED <<cache, pending, lock, now, lastc>>

\* The with block is left without exception: conn.commit(), conn.close();
\* the call returns.
TxnCommit(c) ==
    /\ calls[c].pc = "commit"
    /\ lock = c
    /\ cache' = pending
    /\ pending' = pending
    /\ lock' = 0
    /\ calls' = [calls EXCEPT ![c] = NoTxnCall]
    /\ UNCHANGED <<now, lastc>>

\* An exception inside the with block: conn.rollback(), conn.close(), raise.
TxnRollback(c) ==
    /\ calls[c].pc \in {"cleanup", "commit"}
    /\ lock = c
    /\ cache' = cache
    /\ pending' = cache
    /\ lock' = 0
    /\ calls' = [calls EXCEPT ![c] = NoTxnCall]
    /\ UNCHANGED <<now, lastc>>

\* get(kind, key): one SELECT, which reads the committed table.
TxnGet(kind, key) ==
    /\ lastc' = [CacheCall("get") EXCEPT !.kind = kind, !.key = key,
                        !.ret = CacheGet(cache, kind, key, now)]
    /\ UNCHANGED <<cache, pending, lock, calls, now>>

\* Time passes.
TxnTick ==
    /\ now < MaxNow
    /\ now' = now + 1
    /\ UNCHANGED <<cache, pending, lock, calls, lastc>>

\* ------------------------------------------------------------- cache keys
\* Strings are sequences of characters; the alphabet has the separator.
Alphabet == {"a", ":"}
Strs == UNION {[1..k -> Alphabet] : k \in 0..MaxLen}

\* hashlib.sha256(raw.encode()).hexdigest(), taken to be free of collisions:
\* two digests are equal exactly when the texts are.
sha256_hexdigest(raw) == [sha256 |-> raw]

\* make_cache_key: raw = f"{article_id}:{model}"
make_cache_key(article_id, model) ==
    sha256_hexdigest(article_id \o <<":">> \o model)

\* A call of make_cache_key; keylog keeps the last two calls.
KeyCall(article_id, model) ==
    /\ keylog' = (IF Len(keylog) < 2 THEN keylog ELSE Tail(keylog)) \o
                    <<[article_id |-> article_id, model |-> model,
                       key |-> make_cache_key(article_id, model)]>>
    /\ UNCHANGED <<sum, batch>>

\* -------------------------------------------------------------- summarizer
\* The SummaryResult of a successful LLM call.
SuccessResult(article_id, parsed, tokens_used) ==
    SummaryResult(TRUE, article_id, parsed.summary, parsed.key_takeaways,
                  parsed.action_items, tokens_used, None)

\* An exception: its class and its message.
Exc(cls, msg) == [cls |-> cls, msg |-> msg]

\* The exceptions the LLM call raises: of the provider, of the transport,
\* of the parsing of the answer.
LlmErrors == {Exc("Exception", "e1"), Exc("JSONDecodeError", "e2")}

\* str(e) that gives the name of the class.
str_ClassName(e) == e.cls

\* str(e): the message of the exception.
str(e) == e.msg

\* The SummaryResult of a failure: error is str(e).
FailureResult(article_id, e) ==
    SummaryResult(FALSE, article_id, None, <<>>, <<>>, 0, str(e))

\* What the LLM answers when it answers: parsed.get("summary") and the two
\* lists; the last answer is a JSON object without the key "summary".
Parsed ==
    {[summary |-> "s1", key_takeaways |-> <<"k1">>, action_items |-> <<"a1">>],
     [summary |-> "s2", key_takeaways |-> <<>>, action_items |-> <<>>],
     [summary |-> None, key_takeaways |-> <<>>, action_items |-> <<>>]}

\* The articles and model names summarize_article is called with.
SumArticleIds == {<<"a">>, <<"a", ":">>}
SumModels == {<<"a">>, <<":", "a">>}

NoSummarize == [pc |-> "idle", article_id |-> <<>>, model_name |-> <<>>,
                hit |-> FALSE, generate_calls |-> 0, llm_error |-> Absent,
                result |-> Absent]

SumKey == make_cache_key(sum.article_id, sum.model_name)

\* summarize_article(article, cache, model_name) is called.
summarize_article(article_id, model_name) ==
    /\ sum.pc \in {"idle", "returned"}
    /\ sum' = [NoSummarize EXCEPT !.pc = "check", !.article_id = article_id,
                                  !.model_name = model_name]
    /\ UNCHANGED <<cacheVars, keylog, batch>>

\* The cache check: a hit is returned as it is.
SumCacheCheck ==
    /\ sum.pc = "check"
    /\ LET cached == CacheGet(cache, "summary", SumKey, now)
       IN  sum' = IF cached # Absent
                  THEN [sum EXCEPT !.pc = "returned", !.hit = TRUE,
                                   !.result = cached]
                  ELSE [sum EXCEPT !.pc = "generate"]
    /\ UNCHANGED <<cacheVars, keylog, batch>>

\* The LLM call: it answers, or it raises and the failure result is returned.
SumGenerate ==
    /\ sum.pc = "generate"
    /\ \/ \E parsed \in Parsed :
            sum' = [sum EXCEPT !.pc = "store",
                        !.generate_calls = @ + 1,
                        !.result = Some(SuccessResult(sum.article_id, parsed,
                                                      MaxTokens))]
       \/ \E e \in LlmErrors :
            sum' = [sum EXCEPT !.pc = "returned",
                        !.generate_calls = @ + 1,
                        !.llm_error = Some(e),
                        !.result = Some(FailureResult(sum.article_id, e))]
    /\ UNCHANGED <<cacheVars, keylog, batch>>

\* The result is persisted under the default TTL, and returned.
SumStore ==
    /\ sum.pc = "store"
    /\ \E dt \in {0, 1} :
        /\ now + dt <= MaxNow
        /\ cache' = CacheSetRows(cache, "summary", SumKey, sum.result[1],
                                 Absent, now, now + dt)
        /\ now' = now + dt
    /\ sum' = [sum EXCEPT !.pc = "returned"]
    /\ UNCHANGED <<lastc, keylog, batch>>

\* ------------------------------------------------------- summarize_batch
max_workers == 5
OnProgress == {"None", "returns", "raises"}
ArticleLists == UNION {[1..n -> Ids] : n \in 0..MaxArticles}

NoBatch == [pc |-> "idle", articles |-> <<>>, on_progress |-> "None",
            futures |-> <<>>, results |-> <<>>, seen |-> <<>>]

\* results in the order of completion.
StoreResultInCompletionOrder(results, i, completed, result) ==
    [results EXCEPT ![completed + 1] = Some(result)]

\* results[i] = result for the successes only.
StoreResultIfSuccess(results, i, completed, result) ==
    IF result.success THEN [results EXCEPT ![i] = Some(result)] ELSE results

\* results[i] = result
StoreResult(results, i, completed, result) ==
    [results EXCEPT ![i] = Some(result)]

\* summarize_batch(articles, on_progress): the results list is allocated
\* and one future per article is submitted.
summarize_batch(article_list, on_progress) ==
    /\ batch.pc = "idle"
    /\ batch' = [pc |-> "collect", articles |-> article_list,
                 on_progress |-> on_progress,
                 futures |-> [i \in DOMAIN article_list |->
                        [state |-> "queued", raised |-> FALSE,
                         result |-> Absent, request |-> Absent]],
                 results |-> [i \in DOMAIN article_list |-> Absent],
                 seen |-> <<>>]
    /\ UNCHANGED <<keylog, sum>>

\* A pool thread takes a queued future.
WorkerStart(i) ==
    /\ batch.futures[i].state = "queued"
    /\ Cardinality({j \in DOMAIN batch.futures :
                        batch.futures[j].state = "running"}) < max_workers
    /\ batch' = [batch EXCEPT !.futures[i].state = "running"]
    /\ UNCHANGED <<keylog, sum>>

\* The future's summarize_article(article) ends: with a success result,
\* with a failure result, or by raising before its try block.
WorkerFinish(i) ==
    /\ batch.futures[i].state = "running"
    /\ \/ \E parsed \in {p \in Parsed : p.summary = "s1"} :
            batch' = [batch EXCEPT !.futures[i].state = "done",
                        !.futures[i].result =
                            Some(SuccessResult(batch.articles[i], parsed,
                                               MaxTokens))]
       \/ batch' = [batch EXCEPT !.futures[i].state = "done",
                        !.futures[i].result =
                            Some(FailureResult(batch.articles[i],
                                               Exc("Exception", "e1")))]
       \/ batch' = [batch EXCEPT !.futures[i].state = "done",
                        !.futures[i].raised = TRUE]
    /\ UNCHANGED <<keylog, sum>>

\* as_completed yields a finished future: progress is reported and the
\* future's result, or the failure result of its exception, is stored.
Collect(i) ==
    /\ batch.pc = "collect"
    /\ batch.futures[i].state = "done"
    /\ \A k \in 1..Len(batch.seen) : batch.seen[k] # i
    /\ batch' =
        IF batch.on_progress = "raises"
        THEN [batch EXCEPT !.pc = "raised"]
        ELSE [batch EXCEPT
                !.results = StoreResult(batch.results, i, Len(batch.seen),
                    IF batch.futures[i].raised
                    THEN FailureResult(batch.articles[i],
                                       Exc("RuntimeError", "e2"))
                    ELSE batch.futures[i].result[1]),
                !.seen = Append(batch.seen, i)]
    /\ UNCHANGED <<keylog, sum>>

\* Every future has been yielded: the results are returned.
BatchReturn ==
    /\ batch.pc = "collect"
    /\ Len(batch.seen) = Len(batch.articles)
    /\ batch' = [batch EXCEPT !.pc = "returned"]
    /\ UNCHANGED <<keylog, sum>>

\* ---- summarize_batch with the LLM call of each future spelled out
\* (ProviderSpec): the request is sent (WorkerCall) and then the provider
\* answers (ProviderAnswers), or it does not and the HTTP client raises
\* when the timeout of the request has run out (CallTimesOut).  A request
\* without a timeout has no such step.

\* The request of Summarizer.summarize_article: generate_content with a
\* GenerateContentConfig that has no http_options, on a genai.Client built
\* without http_options, so with no timeout (Absent).
SummarizerRequest == [via |-> "Summarizer", timeout |-> Absent]

\* The request of GeminiClient.generate: http_options=HttpOptions(timeout=
\* 120_000), in milliseconds.
GeminiClientRequest == [via |-> "GeminiClient", timeout |-> Some(120000)]

\* The future's summarize_article reaches its LLM call.
WorkerCall(i, request) ==
    /\ batch.futures[i].state = "running"
    /\ batch' = [batch EXCEPT !.futures[i].state = "calling",
                              !.futures[i].request = Some(request)]
    /\ UNCHANGED <<keylog, sum>>

\* The provider answers: with a summary, or with an error that the except
\* clause turns into the failure result.
ProviderAnswers(i) ==
    /\ batch.futures[i].state = "calling"
    /\ \/ \E parsed \in {p \in Parsed : p.summary = "s1"} :
            batch' = [batch EXCEPT !.futures[i].state = "done",
                        !.futures[i].result =
                            Some(SuccessResult(batch.articles[i], parsed,
                                               MaxTokens))]
       \/ batch' = [batch EXCEPT !.futures[i].state = "done",
                        !.futures[i].result =
                            Some(FailureResult(batch.articles[i],
                                               Exc("Exception", "e1")))]
    /\ UNCHANGED <<keylog, sum>>

\* The timeout of the request runs out: the call raises inside the try
\* block and the failure result is returned.
CallTimesOut(i) ==
    /\ batch.futures[i].state = "calling"
    /\ batch.futures[i].request[1].timeout # Absent
    /\ batch' = [batch EXCEPT !.futures[i].state = "done",
                    !.futures[i].result =
                        Some(FailureResult(batch.articles[i],
                                           Exc("Exception", "e1")))]
    /\ UNCHANGED <<keylog, sum>>

\* -------------------------------------------------------------- fetch_feed
FEED_AGENT_HEADERS == "feed-agent"
BROWSER_HEADERS == "browser"
\* The header profiles in the order fetch_feed tries them.
Profiles == <<FEED_AGENT_HEADERS, BROWSER_HEADERS>>
\* The retry statuses with the server errors among them.
BOT_FILTER_WITH_SERVER_ERRORS == {403, 404, 500}
BOT_FILTER_RETRY_STATUS_CODES == {403, 404}

Statuses == {200, 403, 404, 500}
FeedUrls == {"f1"}
Timeouts == {5, 30}
MaxArticlesArgs == {1, 2}

\* The responses httpx.get can give for a feed URL: redirects are followed,
\* so the URL of the response may differ from the URL asked for.
Responses(feed_url) ==
    {[status_code |-> st, url |-> u, content_type |-> ct] :
        st \in Statuses, u \in {feed_url, "redirected"}, ct \in {None, "xml"}}

\* The exceptions a request can raise: httpx.TimeoutException, another
\* httpx.HTTPError, and an exception that is no httpx.HTTPError.
RequestErrors ==
    {Exc("TimeoutException", "e1"), Exc("ConnectError", "e2"),
     Exc("InvalidURL", "e3")}

\* A piece of an error message.
Part(t, v) == [t |-> t, v |-> v]

\* _format_http_error without the attempts.
_format_http_error_NoAttempts(response, attempt_summaries) ==
    <<Part("HTTP", [status_code |-> response.status_code, url |-> response.url])>>
    \o (IF response.content_type # None
        THEN <<Part("content-type", response.content_type)>> ELSE <<>>)

\* _format_http_error
_format_http_error(response, attempt_summaries) ==
    <<Part("HTTP", [status_code |-> response.status_code, url |-> response.url])>>
    \o (IF attempt_summaries # <<>>
        THEN <<Part("attempts", attempt_summaries)>> ELSE <<>>)
    \o (IF response.content_type # None
        THEN <<Part("content-type", response.content_type)>> ELSE <<>>)

\* The FeedResult fetch_feed returns (feed_name and response_time_ms left out).
FeedResult(feed_url, article_list, success, error, status_code, final_url, content_type, attempts, entry_count, bozo, bozo_exception) ==
    [feed_url |-> feed_url, articles |-> article_list, success |-> success,
     error |-> error, status_code |-> status_code, final_url |-> final_url,
     content_type |-> content_type, attempts |-> attempts,
     entry_count |-> entry_count, bozo |-> bozo,
     bozo_exception |-> bozo_exception]

NoFetch == [pc |-> "idle", feed_url |-> "", timeout |-> 0, max_articles |-> 0,
            profile |-> 1, attempts |-> 0, status_code |-> Absent,
            final_url |-> Absent, content_type |-> None,
            attempt_summaries |-> <<>>, response |-> Absent,
            requests |-> <<>>, feed |-> Absent, raised |-> Absent,
            result |-> Absent, now |-> 0, lookback_hours |-> 0, tz |-> 0,
            sources |-> <<>>]

Max(a, b) == IF a >= b THEN a ELSE b

\* The except clauses without the one for httpx.TimeoutException.
ExceptReturnNoTimeoutClause(f, e) ==
    [f EXCEPT !.pc = "returned", !.raised = Some(e),
        !.result = Some(FeedResult(f.feed_url, <<>>, FALSE,
            Some(<<Part("exception", str(e))>>),
            f.status_code, f.final_url, f.content_type,
            Max(f.attempts, 1), 0, FALSE, Absent))]

\* The except clauses: the exception e was raised inside the try block.
ExceptReturn(f, e) ==
    [f EXCEPT !.pc = "returned", !.raised = Some(e),
        !.result = Some(FeedResult(f.feed_url, <<>>, FALSE,
            Some(IF e.cls = "TimeoutException"
                 THEN <<Part("Request timed out after", f.timeout),
                        Part("exception", str(e))>>
                 ELSE <<Part("exception", str(e))>>),
            f.status_code, f.final_url, f.content_type,
            Max(f.attempts, 1), 0, FALSE, Absent))]

\* The final response has a status >= 400.
HttpErrorReturn(f) ==
    [f EXCEPT !.pc = "returned",
        !.result = Some(FeedResult(f.feed_url, <<>>, FALSE,
            Some(_format_http_error(f.response[1], f.attempt_summaries)),
            Some(f.response[1].status_code), Some(f.response[1].url),
            f.response[1].content_type, f.attempts, 0, FALSE, Absent))]

\* fetch_feed(feed_url, ..., max_articles, timeout) is called.
fetch_feed(feed_url, max_articles, timeout) ==
    /\ fetch.pc = "idle"
    /\ fetch' = [NoFetch EXCEPT !.pc = "request", !.feed_url = feed_url,
                                !.max_articles = max_articles,
                                !.timeout = timeout]

\* _fetch_response with the timeout left off the retry.
_fetch_response_RetryWithoutTimeout(feed_url, timeout, headers) ==
    [url |-> feed_url, headers |-> headers, follow_redirects |-> TRUE,
     timeout |-> IF headers = BROWSER_HEADERS THEN Absent ELSE Some(timeout)]

\* _fetch_response: the httpx.get call it makes.  timeout is Some(seconds),
\* Absent would be httpx's timeout=None, a request that waits without end.
_fetch_response(feed_url, timeout, headers) ==
    [url |-> feed_url, headers |-> headers, follow_redirects |-> TRUE,
     timeout |-> Some(timeout)]

\* attempts += 1 and the call of _fetch_response under the current profile.
Sent(f) ==
    [f EXCEPT !.attempts = @ + 1,
              !.requests = Append(@, _fetch_response(f.feed_url, f.timeout,
                                                     Profiles[f.profile]))]

\* The rest of the loop body for the response r: a status below 400 ends the
\* loop, a bot-filter status under the feed-agent headers goes on to the
\* browser profile, any other status ends the loop with an HTTP error.
Responded(sent, r) ==
    LET profile == Profiles[sent.profile]
        got == [sent EXCEPT
                !.status_code = Some(r.status_code),
                !.final_url = Some(r.url),
                !.content_type = r.content_type,
                !.attempt_summaries = Append(@,
                    [status_code |-> r.status_code, profile |-> profile]),
                !.response = Some(r)]
    IN  IF r.status_code < 400 THEN [got EXCEPT !.pc = "parse"]
        ELSE IF /\ r.status_code \in BOT_FILTER_RETRY_STATUS_CODES
                /\ profile = FEED_AGENT_HEADERS
             THEN [got EXCEPT !.profile = @ + 1]
             ELSE HttpErrorReturn(got)

\* One turn of the loop over the header profiles: a request is sent; it
\* raises, or its response ends the loop, or it is a bot-filter status
\* under the feed-agent headers and the loop goes on.
Request ==
    /\ fetch.pc = "request"
    /\ LET sent == Sent(fetch)
       IN  \/ \E e \in RequestErrors : fetch' = ExceptReturn(sent, e)
           \/ \E r \in Responses(fetch.feed_url) : fetch' = Responded(sent, r)

\* ---- the same turn with the wait for the host as a state of its own: the
\* request is sent (SendRequest) and then the host answers (HostAnswers),
\* the connection fails (RequestFails), or neither happens and httpx raises
\* TimeoutException when the request's timeout has run out (TimeoutElapses).
\* A request sent with timeout=None has no such step.
SendRequest ==
    /\ fetch.pc = "request"
    /\ fetch' = [Sent(fetch) EXCEPT !.pc = "waiting"]

InFlight == fetch.requests[Len(fetch.requests)]

HostAnswers ==
    /\ fetch.pc = "waiting"
    /\ \E r \in Responses(fetch.feed_url) :
            fetch' = Responded([fetch EXCEPT !.pc = "request"], r)

RequestFails ==
    /\ fetch.pc = "waiting"
    /\ \E e \in RequestErrors :
            /\ e.cls # "TimeoutException"
            /\ fetch' = ExceptReturn(fetch, e)

TimeoutElapses ==
    /\ fetch.pc = "waiting"
    /\ InFlight.timeout # Absent
    /\ fetch' = ExceptReturn(fetch, Exc("TimeoutException", "e1"))

\* An entry of a parsed feed: its link (a URL, "" when it has none, or
\* "/rel", which is no absolute http URL) and what _parse_entry_date and the
\* cutoff make of its date.
Links == Urls \cup {"", "/rel"}
Dates == {"recent", "old", "none"}
Entries == [link : Links, date : Dates]

\* What feedparser.parse returns: the bozo flag (with its exception) and
\* the entries.
Feeds ==
    [bozo : BOOLEAN,
     entries : UNION {[1..n -> Entries] : n \in 0..MaxEntries}]

\* str(feed.bozo_exception)
BozoText == "e4"

\* Article(url=...) validates the URL as an HttpUrl.
IsHttpUrl(link) == link \in Urls

SubSeqTo(seq, n) == SubSeq(seq, 1, IF n < Len(seq) THEN n ELSE Len(seq))

RECURSIVE EntryLoop(_, _, _)
\* The loop over the entries: the articles collected so far are acc; an
\* entry without a date, an old entry and an entry without a link are
\* skipped, an article with an invalid URL raises, and the loop ends at
\* max_articles articles.
EntryLoop(entries, max_articles, acc) ==
    IF entries = <<>> THEN [raised |-> FALSE, articles |-> acc]
    ELSE LET entry == Head(entries) IN
         IF entry.date = "none" \/ entry.date = "old" \/ entry.link = ""
         THEN EntryLoop(Tail(entries), max_articles, acc)
         ELSE IF ~IsHttpUrl(entry.link)
         THEN [raised |-> TRUE, articles |-> acc]
         ELSE IF Len(acc) + 1 >= max_articles
         THEN [raised |-> FALSE,
               articles |-> Append(acc,
                    Article(generate_article_id(entry.link), entry.link, "t1"))]
         ELSE EntryLoop(Tail(entries), max_articles, Append(acc,
                    Article(generate_article_id(entry.link), entry.link, "t1")))

\* for entry in feed.entries[:max_articles * 2]
ProcessEntries(entries, max_articles) ==
    EntryLoop(SubSeqTo(entries, max_articles * 2), max_articles, <<>>)

\* pydantic's ValidationError for the url field.
ValidationError == Exc("ValidationError", "e5")

\* What fetch_feed makes of a parsed feed.
ParsedReturn(f, feed) ==
    LET parsed == [f EXCEPT !.feed = Some(feed)]
        loop == ProcessEntries(feed.entries, f.max_articles)
    IN  IF feed.bozo /\ feed.entries = <<>>
        THEN [parsed EXCEPT !.pc = "returned",
                !.result = Some(FeedResult(f.feed_url, <<>>, FALSE,
                    Some(<<Part("exception", BozoText)>>),
                    f.status_code, f.final_url, f.content_type, f.attempts,
                    0, TRUE, Some(BozoText)))]
        ELSE IF loop.raised
        THEN ExceptReturn(parsed, ValidationError)
        ELSE [parsed EXCEPT !.pc = "returned",
                !.result = Some(FeedResult(f.feed_url, loop.articles, TRUE,
                    Absent, f.status_code, f.final_url, f.content_type,
                    f.attempts, Len(feed.entries), feed.bozo,
                    IF feed.bozo THEN Some(BozoText) ELSE Absent))]

\* feedparser.parse(response.content) and what follows it; the parser
\* itself may raise.
Parse ==
    /\ fetch.pc = "parse"
    /\ \/ fetch' = ExceptReturn(fetch, Exc("Exception", "e6"))
       \/ \E feed \in Feeds : fetch' = ParsedReturn(fetch, feed)

\* ---- feeds with more entries than fetch_feed scans (ScanSpec): one entry
\* more than MaxEntries, so that with max_articles = 1 an entry lies beyond
\* the first max_articles * 2.
LongFeeds ==
    [bozo : BOOLEAN,
     entries : UNION {[1..n -> Entries] : n \in 0..(MaxEntries + 1)}]

\* feedparser.parse(response.content) and what follows it, for such a feed.
ScanParse ==
    /\ fetch.pc = "parse"
    /\ \E feed \in LongFeeds : fetch' = ParsedReturn(fetch, feed)

\* ---- the loop over the entries with the dates spelled out (EntrySpec).
\* Times are in hours.  An entry carries published_parsed, the UTC
\* struct_time feedparser made of its date (Some(instant)), and published,
\* the text of the date; the updated and created fields are read the same
\* way and are left out.
DateText(parses, dt) == [parses |-> parses, dt |-> dt]
Nows == {5}
LookbackHours == {2}
\* The UTC offset of the local time zone of the machine.
LocalOffsets == {-1, 0, 1}
EntryDates ==
    {[published_parsed |-> Some(t), published |-> Absent] : t \in {2, 3, 4}}
    \cup {[published_parsed |-> Absent, published |-> Some(DateText(TRUE, dt))] :
            dt \in {Datetime(2, 0), Datetime(3, 2)}}
    \cup {[published_parsed |-> Absent,
           published |-> Some(DateText(FALSE, DefaultPublished))],
          [published_parsed |-> Absent, published |-> Absent]}
DatedEntries ==
    {[link |-> link, published_parsed |-> d.published_parsed,
      published |-> d.published] : link \in Links, d \in EntryDates}
DatedFeeds ==
    [bozo : BOOLEAN,
     entries : UNION {[1..n -> DatedEntries] : n \in 0..MaxEntries}]

\* time.mktime(parsed): the seconds since the epoch of the struct_time read
\* as LOCAL time, so the instant of a UTC struct_time less the local offset.
mktime(parsed, tz) == parsed - tz

\* _parse_entry_date: the parsed field first, then the text (a date
\* without an offset is taken as UTC); Absent is None.
_parse_entry_date(entry, tz) ==
    IF entry.published_parsed # Absent
    THEN Some(Datetime(mktime(entry.published_parsed[1], tz), 0))
    ELSE IF entry.published # Absent /\ entry.published[1].parses
    THEN Some(entry.published[1].dt)
    ELSE Absent

RECURSIVE DatedEntryLoop(_, _, _, _, _, _, _)
\* The loop over the entries from entry i on: acc are the articles so far
\* and src the indices of the entries they were made from.
DatedEntryLoop(entries, i, max_articles, cutoff, tz, acc, src) ==
    IF i > Len(entries) THEN [raised |-> FALSE, articles |-> acc, sources |-> src]
    ELSE LET entry == entries[i]
             published == _parse_entry_date(entry, tz)
             article == ArticleAt(generate_article_id(entry.link), entry.link,
                                  "t1", published[1])
         IN
         IF published = Absent
         THEN DatedEntryLoop(entries, i + 1, max_articles, cutoff, tz, acc, src)
         ELSE IF published[1].t < cutoff \/ entry.link = ""
         THEN DatedEntryLoop(entries, i + 1, max_articles, cutoff, tz, acc, src)
         ELSE IF ~IsHttpUrl(entry.link)
         THEN [raised |-> TRUE, articles |-> acc, sources |-> src]
         ELSE IF Len(acc) + 1 >= max_articles
         THEN [raised |-> FALSE, articles |-> Append(acc, article),
               sources |-> Append(src, i)]
         ELSE DatedEntryLoop(entries, i + 1, max_articles, cutoff, tz,
                             Append(acc, article), Append(src, i))

\* What fetch_feed makes of a parsed feed at the instant at, on a machine
\* whose local time is tz hours ahead of UTC.
DatedReturn(f, feed, at, lookback_hours, tz) ==
    LET parsed == [f EXCEPT !.feed = Some(feed), !.now = at,
                            !.lookback_hours = lookback_hours, !.tz = tz]
        cutoff == at - lookback_hours
        loop == DatedEntryLoop(SubSeqTo(feed.entries, f.max_articles * 2), 1,
                               f.max_articles, cutoff, tz, <<>>, <<>>)
    IN  IF feed.bozo /\ feed.entries = <<>>
        THEN [parsed EXCEPT !.pc = "returned",
                !.result = Some(FeedResult(f.feed_url, <<>>, FALSE,
                    Some(<<Part("exception", BozoText)>>),
                    f.status_code, f.final_url, f.content_type, f.attempts,
                    0, TRUE, Some(BozoText)))]
        ELSE IF loop.raised
        THEN ExceptReturn(parsed, ValidationError)
        ELSE [parsed EXCEPT !.pc = "returned", !.sources = loop.sources,
                !.result = Some(FeedResult(f.feed_url, loop.articles, TRUE,
                    Absent, f.status_code, f.final_url, f.content_type,
                    f.attempts, Len(feed.entries), feed.bozo,
                    IF feed.bozo THEN Some(BozoText) ELSE Absent))]

\* feedparser.parse(response.content) and what follows it.
DatedParse ==
    /\ fetch.pc = "parse"
    /\ \E feed \in DatedFeeds, at \in Nows, lookback_hours \in LookbackHours,
          tz \in LocalOffsets :
            fetch' = DatedReturn(fetch, feed, at, lookback_hours, tz)

\* --------------------------------------------------------- fetch_all_feeds
fetch_max_workers == 10

\* feeds_config in its order: per feed its name and its url, "" when the
\* feed has none.
FeedNames == <<"n1", "n2", "n3", "n4">>
FeedConfigs ==
    UNION {{[i \in 1..n |-> [name |-> FeedNames[i], url |-> us[i]]] :
                us \in [1..n -> {"", "f1", "f2"}]} : n \in 0..MaxConfigured}

RECURSIVE FetchArgs(_)
\* fetch_args: the feeds that have a URL.
FetchArgs(config) ==
    IF config = <<>> THEN <<>>
    ELSE (IF Head(config).url = "" THEN <<>> ELSE <<Head(config)>>)
            \o FetchArgs(Tail(config))

\* What one fetch_feed call can return for a feed.
FetchOutcomes(url) ==
    {FeedResult(url, <<Article(generate_article_id("u1"), "u1", "t1")>>, TRUE,
                Absent, Some(200), Some(url), "xml", 1, 1, FALSE, Absent),
     FeedResult(url, <<>>, FALSE,
                Some(<<Part("exception", "e1")>>), Absent, Absent, None, 1, 0,
                FALSE, Absent)}

\* The FeedResult for a future that raised e.
UnhandledResult(arg, e) ==
    FeedResult(arg.url, <<>>, FALSE,
               Some(<<Part("Unhandled fetch error", str(e))>>), Absent, Absent,
               None, 1, 0, FALSE, Absent)

NoFetchAll == [pc |-> "idle", config |-> <<>>, fetch_args |-> <<>>,
               futures |-> <<>>, results |-> <<>>, seen |-> <<>>]

\* results.append(result) for the successes only.
AppendResultIfSuccess(results, result) ==
    IF result.success THEN Append(results, result) ELSE results

\* results.append(result)
AppendResult(results, result) == Append(results, result)

\* fetch_all_feeds(feeds_config): one future per feed that has a URL.
fetch_all_feeds(config) ==
    /\ fall.pc = "idle"
    /\ fall' = [NoFetchAll EXCEPT !.pc = "collect", !.config = config,
                    !.fetch_args = FetchArgs(config),
                    !.futures = [i \in DOMAIN FetchArgs(config) |->
                        [state |-> "queued", raised |-> FALSE,
                         result |-> Absent]]]
    /\ UNCHANGED fetch

\* A pool thread takes a queued future.
FeedWorkerStart(i) ==
    /\ fall.futures[i].state = "queued"
    /\ Cardinality({j \in DOMAIN fall.futures :
                        fall.futures[j].state = "running"}) < fetch_max_workers
    /\ fall' = [fall EXCEPT !.futures[i].state = "running"]
    /\ UNCHANGED fetch

\* The future's fetch_feed ends: with a result, or by raising.
FeedWorkerFinish(i) ==
    /\ fall.futures[i].state = "running"
    /\ \/ \E res \in FetchOutcomes(fall.fetch_args[i].url) :
            fall' = [fall EXCEPT !.futures[i].state = "done",
                                 !.futures[i].result = Some(res)]
       \/ fall' = [fall EXCEPT !.futures[i].state = "done",
                                !.futures[i].raised = TRUE]
    /\ UNCHANGED fetch

\* as_completed yields a finished future: its result, or the result that
\* stands for its exception, is appended.
FeedCollect(i) ==
    /\ fall.pc = "collect"
    /\ fall.futures[i].state = "done"
    /\ \A k \in 1..Len(fall.seen) : fall.seen[k] # i
    /\ fall' = [fall EXCEPT
            !.results = AppendResult(fall.results,
                IF fall.futures[i].raised
                THEN UnhandledResult(fall.fetch_args[i],
                                     Exc("RuntimeError", "e2"))
                ELSE fall.futures[i].result[1]),
            !.seen = Append(fall.seen, i)]
    /\ UNCHANGED fetch

\* Every future has been yielded: the results are returned.
FetchAllReturn ==
    /\ fall.pc = "collect"
    /\ Len(fall.seen) = Len(fall.fetch_args)
    /\ fall' = [fall EXCEPT !.pc = "returned"]
    /\ UNCHANGED fetch

\* ---- fetch_all_feeds with the fetch_feed calls of its futures spelled out
\* (TimeoutSpec).  The calls share no state, so the model runs them one
\* after the other.
default_timeout == 30

\* The answers of a host and the feeds parsed from them that the runs of
\* TimeoutSpec draw from.
HostResponses(feed_url) ==
    {r \in Responses(feed_url) :
        r.url = feed_url /\ r.content_type = "xml" /\ r.status_code # 404}
\* The configurations of TimeoutSpec: at most MaxFeeds feeds have a URL.
HostConfigs == {config \in FeedConfigs : Len(FetchArgs(config)) <= MaxFeeds}
HostFeeds ==
    {feed \in Feeds :
        /\ ~feed.bozo
        /\ Len(feed.entries) <= 1
        /\ \A k \in DOMAIN feed.entries :
                feed.entries[k] = [link |-> "u1", date |-> "recent"]}

\* The future's thread calls fetch_feed(feed_url=url, ...,
\* max_articles=max_articles_per_feed) and so with the default timeout.
FeedWorkerCall(i) ==
    /\ fall.futures[i].state = "running"
    /\ \A j \in DOMAIN fall.futures : fall.futures[j].state # "fetching"
    /\ fetch_feed(fall.fetch_args[i].url,
                  CHOOSE n \in MaxArticlesArgs : \A k \in MaxArticlesArgs : k <= n,
                  default_timeout)
    /\ fall' = [fall EXCEPT !.futures[i].state = "fetching"]

\* The host answers the request in flight.
FeedHostAnswers ==
    /\ HostAnswers
    /\ fetch'.response \in {Some(r) : r \in HostResponses(fetch.feed_url)}
    /\ UNCHANGED fall

\* feedparser.parse and the rest of fetch_feed.
FeedParse ==
    /\ Parse
    /\ fetch'.feed \in {Absent} \cup {Some(feed) : feed \in HostFeeds}
    /\ UNCHANGED fall

\* fetch_feed has returned: the future is done with its result.
FeedWorkerReturn(i) ==
    /\ fall.futures[i].state = "fetching"
    /\ fetch.pc = "returned"
    /\ fall' = [fall EXCEPT !.futures[i].state = "done",
                            !.futures[i].result = fetch.result]
    /\ fetch' = NoFetch

\* --------------------------------------------------------- article queries
\* The publish times of the stored articles.  _parse_entry_date gives UTC
\* for the dates feedparser parsed and keeps the offset of the dates
\* dateutil parsed from the text; save_article takes any Article.
Instants == {2, 3}
Offsets == {-2, 0, 2}
PublishedTimes == {Datetime(t, off) : t \in Instants, off \in Offsets}

\* article.published.isoformat(), as character codes: the local date and
\* time (one digit here, for the fixed-width "YYYY-MM-DDTHH:MM:SS"), the
\* sign ('+' is 43, '-' is 45) and the offset.
published_isoformat(dt) ==
    <<48 + dt.t + dt.off, IF dt.off < 0 THEN 45 ELSE 43,
      48 + (IF dt.off < 0 THEN 0 - dt.off ELSE dt.off)>>

\* The sequences that list every element of a set once.
Orderings(S) ==
    {seq \in [1..Cardinality(S) -> S] :
        \A i, j \in 1..Cardinality(S) : seq[i] = seq[j] => i = j}

\* ORDER BY published DESC: published is a TEXT column, compared as text;
\* rows of equal text come in any order.
OrderByPublishedDesc(rows) ==
    {seq \in Orderings(rows) :
        \A i \in 1..(Len(seq) - 1) :
            ~TextLess(published_isoformat(seq[i].published),
                      published_isoformat(seq[i + 1].published))}

\* LIMIT ?
Limit(seq, limit) == SubSeq(seq, 1, IF limit < Len(seq) THEN limit ELSE Len(seq))
Limits == 0..2

\* WHERE published >= ?, the parameter being since.isoformat().
PublishedSince(rows, since) ==
    {row \in rows : ~TextLess(published_isoformat(row.published),
                              published_isoformat(since))}

\* Database.get_pending_articles(limit)
get_pending_articles(limit) ==
    /\ \E seq \in OrderByPublishedDesc({row \in articles : row.status = PENDING}) :
        last' = [NoCall EXCEPT !.op = "get_pending_articles",
                               !.limit = limit,
                               !.rows = Limit(seq, limit),
                               !.n = 1 - last.n]
    /\ UNCHANGED <<articles, pending, lock, calls>>

\* Database.get_articles_since(since, status): status is None or a status.
get_articles_since(since, status) ==
    /\ \E seq \in OrderByPublishedDesc(
                    {row \in PublishedSince(articles, since) :
                        status = "" \/ row.status = status}) :
        last' = [NoCall EXCEPT !.op = "get_articles_since",
                               !.since = since,
                               !.status = status,
                               !.rows = seq,
                               !.n = 1 - last.n]
    /\ UNCHANGED <<articles, pending, lock, calls>>

\* ---------------------------------------------------------------- scheduler
\* A text is a sequence of lines and newlines: every element is the
\* newline or the non-empty text of one line, and no two lines are
\* adjacent.  A blank line is the place between two newlines.
NL == "\n"
CronLabels == {"l1", "l2"}
Frequencies == {"daily", "weekly"}
\* The resolved plans: the label and what makes the cron entry.
Plans == {[label |-> l, frequency |-> f] : l \in CronLabels, f \in Frequencies}
\* The lines a user writes in the crontab, the blank line among them.
UserLines == {"u1", "u2", ""}

cron_marker_start(label) ==
    IF label = "l1" THEN "# >>> feed schedule (l1) >>>"
                    ELSE "# >>> feed schedule (l2) >>>"

cron_marker_end(label) ==
    IF label = "l1" THEN "# <<< feed schedule (l1) <<<"
                    ELSE "# <<< feed schedule (l2) <<<"

\* build_cron_line(plan): the schedule and the quoted shell command, which
\* do not depend on the label.
build_cron_line(plan) ==
    IF plan.frequency = "daily" THEN "0 7 * * * /bin/zsh -lc run"
                                ELSE "0 7 * * 5 /bin/zsh -lc run"

\* str.rstrip("\n")
RECURSIVE rstrip(_)
rstrip(text) ==
    IF text # <<>> /\ text[Len(text)] = NL
        THEN rstrip(SubSeq(text, 1, Len(text) - 1))
        ELSE text

\* str.splitlines(): the newline that ends the text starts no line.
RECURSIVE splitlines(_)
splitlines(text) ==
    IF text = <<>> THEN <<>>
    ELSE IF text[1] = NL THEN <<"">> \o splitlines(Tail(text))
    ELSE <<text[1]>> \o splitlines(SubSeq(text, 3, Len(text)))

\* "\n".join(lines)
RECURSIVE join(_)
join(lines) ==
    IF lines = <<>> THEN <<>>
    ELSE (IF lines[1] = "" THEN <<>> ELSE <<lines[1]>>)
         \o (IF Len(lines) = 1 THEN <<>> ELSE <<NL>> \o join(Tail(lines)))

\* f"{start}\n{line}\n{end}"
render_cron_managed_block(plan) ==
    join(<<cron_marker_start(plan.label), build_cron_line(plan),
           cron_marker_end(plan.label)>>)

\* crontab -l: the content without its newlines at the end; "" when the
\* user has no crontab.
_read_crontab(text) == rstrip(text)

\* crontab -: the content with one newline at the end.
_write_crontab(content) == rstrip(content) \o <<NL>>

\* x in lines; lines.index(x), counted from 1.
Contains(lines, x) == \E i \in 1..Len(lines) : lines[i] = x
index(lines, x) ==
    CHOOSE i \in 1..Len(lines) :
        lines[i] = x /\ \A j \in 1..(i - 1) : lines[j] # x

\* A replacement that keeps the end marker of the block it replaces:
\* lines[:start_idx] + block.splitlines() + lines[end_idx:]
ReplacedLinesKeepingEnd(lines, start_idx, end_idx, block_lines) ==
    SubSeq(lines, 1, start_idx - 1) \o block_lines
        \o SubSeq(lines, end_idx, Len(lines))

\* lines[:start_idx] + block.splitlines() + lines[end_idx + 1:]
ReplacedLines(lines, start_idx, end_idx, block_lines) ==
    SubSeq(lines, 1, start_idx - 1) \o block_lines
        \o SubSeq(lines, end_idx + 1, Len(lines))

\* get_cron_managed_block(label) on a crontab of this text: the block, or
\* None, or RuntimeError.
get_cron_managed_block(text, label) ==
    LET existing == _read_crontab(text)
        lines == IF existing # <<>> THEN splitlines(existing) ELSE <<>>
        start == cron_marker_start(label)
        end == cron_marker_end(label)
    IN  IF ~Contains(lines, start) \/ ~Contains(lines, end)
            THEN [raised |-> FALSE, block |-> Absent]
        ELSE IF index(lines, end) < index(lines, start)
            THEN [raised |-> TRUE, block |-> Absent]
        ELSE [raised |-> FALSE,
              block |-> Some(join(SubSeq(lines, index(lines, start),
                                         index(lines, end))))]

NoCron == [op |-> "none", plan |-> [label |-> "", frequency |-> ""],
           replace_existing |-> FALSE, raised |-> FALSE, before |-> <<>>,
           installed |-> [l \in CronLabels |-> Absent], n |-> 0]

\* install_cron(plan, replace_existing)
install_cron(plan, replace_existing) ==
    LET block == render_cron_managed_block(plan)
        existing == _read_crontab(crontab)
        start == cron_marker_start(plan.label)
        end == cron_marker_end(plan.label)
        lines == IF existing # <<>> THEN splitlines(existing) ELSE <<>>
        present == Contains(lines, start) /\ Contains(lines, end)
        raised == /\ present
                  /\ \/ ~replace_existing
                     \/ index(lines, end) < index(lines, start)
        new_lines ==
            IF present
                THEN ReplacedLines(lines, index(lines, start),
                                   index(lines, end), splitlines(block))
                ELSE lines \o (IF lines # <<>> THEN <<"">> ELSE <<>>)
                           \o splitlines(block)
    IN  /\ crontab' = IF raised THEN crontab ELSE _write_crontab(join(new_lines))
        /\ cron' = [op |-> "install_cron", plan |-> plan,
                    replace_existing |-> replace_existing, raised |-> raised,
                    before |-> crontab,
                    installed |-> IF raised THEN cron.installed
                                  ELSE [cron.installed EXCEPT ![plan.label] = Some(plan)],
                    n |-> 1 - cron.n]

\* The user adds a line at the end of the crontab (crontab -e), at most
\* MaxUserLines times.
EditCrontab(line) ==
    /\ Len(SelectSeq(crontab, LAMBDA x : x = NL)) < MaxUserLines + Len(SelectSeq(crontab, LAMBDA x : x \notin UserLines \cup {NL}))
    /\ crontab' = crontab \o (IF line = "" THEN <<>> ELSE <<line>>) \o <<NL>>
    /\ cron' = [NoCron EXCEPT !.installed = cron.installed, !.n = cron.n]

\* -------------------------------------------------------------- feed status
\* The feed_status table: feed_url is the PRIMARY KEY, so the table is a
\* function from the feed URLs that have a row to the other columns.  NULL
\* is Absent.
StatusUrls == {"f1", "f2"}
StatusNames == {"n1", "n2"}
StatusErrors == {None, "e1"}

\* The statement of a failure report, were it to store the counter of the
\* row it tried to insert: consecutive_failures = excluded.consecutive_failures
FailureRowRestarting(table, feed_url, feed_name, error, at) ==
    IF feed_url \in DOMAIN table
        THEN [table EXCEPT ![feed_url] =
                [@ EXCEPT !.feed_name = feed_name, !.last_checked = Some(at),
                          !.last_error = IF error = None THEN Absent ELSE Some(error),
                          !.consecutive_failures = 1]]
        ELSE [u \in DOMAIN table \cup {feed_url} |->
                IF u = feed_url
                    THEN [feed_name |-> feed_name, last_checked |-> Some(at),
                          last_success |-> Absent,
                          last_error |-> IF error = None THEN Absent ELSE Some(error),
                          consecutive_failures |-> 1]
                    ELSE table[u]]

\* INSERT INTO feed_status (feed_url, feed_name, last_checked, last_error,
\* consecutive_failures) VALUES (?, ?, ?, ?, 1) ON CONFLICT(feed_url) DO
\* UPDATE SET feed_name, last_checked, last_error = ?,
\* consecutive_failures = consecutive_failures + 1
FailureRow(table, feed_url, feed_name, error, at) ==
    IF feed_url \in DOMAIN table
        THEN [table EXCEPT ![feed_url] =
                [@ EXCEPT !.feed_name = feed_name, !.last_checked = Some(at),
                          !.last_error = IF error = None THEN Absent ELSE Some(error),
                          !.consecutive_failures = @ + 1]]
        ELSE [u \in DOMAIN table \cup {feed_url} |->
                IF u = feed_url
                    THEN [feed_name |-> feed_name, last_checked |-> Some(at),
                          last_success |-> Absent,
                          last_error |-> IF error = None THEN Absent ELSE Some(error),
                          consecutive_failures |-> 1]
                    ELSE table[u]]

\* INSERT INTO feed_status (feed_url, feed_name, last_checked, last_success,
\* consecutive_failures) VALUES (?, ?, ?, ?, 0) ON CONFLICT(feed_url) DO
\* UPDATE SET feed_name, last_checked, last_success, consecutive_failures = 0
SuccessRow(table, feed_url, feed_name, at) ==
    IF feed_url \in DOMAIN table
        THEN [table EXCEPT ![feed_url] =
                [@ EXCEPT !.feed_name = feed_name, !.last_checked = Some(at),
                          !.last_success = Some(at),
                          !.consecutive_failures = 0]]
        ELSE [u \in DOMAIN table \cup {feed_url} |->
                IF u = feed_url
                    THEN [feed_name |-> feed_name, last_checked |-> Some(at),
                          last_success |-> Some(at), last_error |-> Absent,
                          consecutive_failures |-> 0]
                    ELSE table[u]]

\* Database.update_feed_status(feed_url, feed_name, success, error): one
\* statement in one transaction.  A failure is reported at most
\* MaxFailures times in a row.
update_feed_status(feed_url, feed_name, success, error) ==
    /\ ~success /\ feed_url \in DOMAIN feed_status =>
            feed_status[feed_url].consecutive_failures < MaxFailures
    /\ feed_status' =
            IF success
                THEN SuccessRow(feed_status, feed_url, feed_name, isoformat(now))
                ELSE FailureRow(feed_status, feed_url, feed_name, error, isoformat(now))
    /\ last' = [op |-> "update_feed_status", feed_url |-> feed_url,
                feed_name |-> feed_name, success |-> success, error |-> error,
                n |-> 1 - last.n]
    /\ UNCHANGED <<articles, pending, lock, calls, feeds, ing, reports>>

\* ------------------------------------------------------------ run_analysis
\* The run_analysis runs that may overlap: separate processes on one
\* database.
Runs == {"r1", "r2"}

NoRun == [pc |-> "idle", selected |-> <<>>, results |-> <<>>, k |-> 0,
          summarized |-> <<>>, errors |-> <<>>, digest |-> Absent]
NoRuns == [r \in Runs |-> NoRun]

\* get_articles_since(since, PENDING): SELECT ... WHERE published >= ? AND
\* status = ?, every stored article taken to be within the lookback.
PendingRows(table) == {row \in table : row.status = PENDING}

\* What summarize_batch gives for one article.
SummaryOutcomes(article) ==
    {SuccessResult(article.id, parsed, MaxTokens) : parsed \in Parsed}
    \cup {FailureResult(article.id, Exc("Exception", "e1"))}

\* run_analysis reads the pending articles; with none it returns at once.
RunSelect(r) ==
    /\ runs[r].pc = "idle"
    /\ \E sel \in Orderings(PendingRows(articles)) :
        runs' = [runs EXCEPT ![r] =
                    [NoRun EXCEPT !.pc = IF sel = <<>> THEN "returned"
                                                       ELSE "summarize",
                                  !.selected = sel]]
    /\ UNCHANGED storeVars

\* summarize_batch(articles, ...): one SummaryResult per selected article.
RunSummarize(r) ==
    /\ runs[r].pc = "summarize"
    /\ \E res \in [DOMAIN runs[r].selected ->
                        UNION {SummaryOutcomes(a) :
                                    a \in {runs[r].selected[i] :
                                                i \in DOMAIN runs[r].selected}}] :
        /\ \A i \in DOMAIN res : res[i] \in SummaryOutcomes(runs[r].selected[i])
        /\ runs' = [runs EXCEPT ![r].pc = "update", ![r].results = res]
    /\ UNCHANGED storeVars

\* One turn of the loop over zip(articles, summary_results): the summary
\* is stored, or the article is marked FAILED.
RunUpdate(r) ==
    /\ runs[r].pc = "update"
    /\ runs[r].k < Len(runs[r].selected)
    /\ LET article == runs[r].selected[runs[r].k + 1]
           result == runs[r].results[runs[r].k + 1]
       IN  IF result.success
           THEN /\ update_article_summary(article.id,
                        [summary |-> IF result.summary = None THEN ""
                                     ELSE result.summary,
                         key_takeaways |-> result.key_takeaways,
                         action_items |-> result.action_items])
                /\ runs' = [runs EXCEPT ![r].k = @ + 1,
                                ![r].summarized = Append(@, article.id)]
           ELSE /\ update_article_status(article.id, FAILED)
                /\ runs' = [runs EXCEPT ![r].k = @ + 1,
                                ![r].errors = Append(@,
                                    <<Part("title", article.title),
                                      Part("error", result.error)>>)]

\* What digest_builder.build_digest(summarized_articles) does: it returns
\* a digest of these articles, or the ValidationError of an answer with a
\* value of the wrong type leaves it (any digest has an overall call).
BuildDigestOutcomes == {"digest", "raised"}

\* The loop is over: without a summarized article run_analysis returns no
\* digest; with some it calls build_digest, outside any try statement, and
\* returns its digest.
RunReturn(r) ==
    /\ runs[r].pc = "update"
    /\ runs[r].k = Len(runs[r].selected)
    /\ \E outcome \in BuildDigestOutcomes :
        runs' = IF runs[r].summarized = <<>>
                    THEN [runs EXCEPT ![r].pc = "returned"]
                ELSE IF outcome = "digest"
                    THEN [runs EXCEPT ![r].pc = "returned",
                                      ![r].digest = Some(runs[r].summarized)]
                ELSE [runs EXCEPT ![r].pc = "raised"]
    /\ UNCHANGED storeVars

\* A run that has returned or raised is over; the next one may start.
RunAgain(r) ==
    /\ runs[r].pc \in {"returned", "raised"}
    /\ runs' = [runs EXCEPT ![r] = NoRun]
    /\ UNCHANGED storeVars

\* ---- runs over time (LookbackSpec): the clock now counts hours, and
\* settings.lookback_hours is the one element of LookbackHours.
settings_lookback_hours == CHOOSE h \in LookbackHours : TRUE

\* An article of a feed entry is stored: fetch_feed kept the entry because
\* its date is not earlier than now - lookback_hours (and it is not later
\* than now).
SaveRecent(url, t) ==
    /\ t >= now - settings_lookback_hours
    /\ t >= 0
    /\ t <= now
    /\ save_article(ArticleAt(generate_article_id(url), url, "t1", Datetime(t, 0)))

\* since = datetime.now(UTC) - timedelta(hours=lookback_hours), and
\* db.get_articles_since(since, status=PENDING); with no article
\* run_analysis returns at once.
RunSelectSince(r) ==
    /\ runs[r].pc = "idle"
    /\ LET since == Datetime(now - settings_lookback_hours, 0) IN
       \E sel \in OrderByPublishedDesc(
                    {row \in PublishedSince(articles, since) : row.status = PENDING}) :
        runs' = [runs EXCEPT ![r] =
                    [NoRun EXCEPT !.pc = IF sel = <<>> THEN "returned"
                                                       ELSE "summarize",
                                  !.selected = sel]]
    /\ UNCHANGED storeVars

\* An hour passes.
HourPasses ==
    /\ now < MaxNow
    /\ now' = now + 1
    /\ UNCHANGED <<cache, lastc>>

\* ---------------------------------------------------------- digest builder
\* The categories and the summarized articles of a category, as
\* build_digest groups them: at least one article per category.
Categories == {"", "tech"}
DigestArticles ==
    {[feed_name |-> "f1", summary |-> None, key_takeaways |-> <<>>],
     [feed_name |-> "f1", summary |-> "s1", key_takeaways |-> <<"k1">>],
     [feed_name |-> "f2", summary |-> "s2", key_takeaways |-> <<"k2", "k3">>],
     [feed_name |-> "f2", summary |-> None,
      key_takeaways |-> <<"k4", "k5", "k6", "k7">>]}
CategoryArticles == UNION {[1..n -> DigestArticles] : n \in 1..(MaxArticles + 1)}

\* The values of the JSON object the model answers with: a string, a list
\* of strings, or null.
JsonNull == [t |-> "null", s |-> "", l |-> <<>>]
JsonStr(s) == [t |-> "str", s |-> s, l |-> <<>>]
JsonList(l) == [t |-> "list", s |-> "", l |-> l]

\* What the model answers to the category prompt when the call returns.
\* response.parsed is set when the answer fits CategorySynthesisResponse;
\* when it does not, the object is json.loads(response.text): keys may be
\* missing and values may be null.
SynthesisAnswers ==
    {[synthesis |-> Some(JsonStr("syn")),
      top_takeaways |-> Some(JsonList(<<"t1", "t2">>))],
     [synthesis |-> Absent, top_takeaways |-> Absent],
     [synthesis |-> Some(JsonNull), top_takeaways |-> Some(JsonList(<<>>))]}

\* What generate_content and the reading of its answer raise.
SynthesisErrors == {Exc("ServerError", "e6"), Exc("JSONDecodeError", "e7")}

\* CategoryDigest(name, article_count, articles, synthesis, top_takeaways)
CategoryDigest(name, article_count, article_list, synthesis, top_takeaways) ==
    [name |-> name, article_count |-> article_count, articles |-> article_list,
     synthesis |-> synthesis, top_takeaways |-> top_takeaways]

NoDigest == [pc |-> "idle", category_name |-> "", articles |-> <<>>,
             llm_calls |-> 0, llm_error |-> Absent, raised |-> Absent,
             result |-> Absent]

\* parsed.get(key, default)
DictGet(field, default) == IF field = Absent THEN default ELSE field[1]

RECURSIVE FirstTakeaways(_)
\* for a in ...: if a.key_takeaways: top_takeaways.append(a.key_takeaways[0])
FirstTakeaways(article_list) ==
    IF article_list = <<>> THEN <<>>
    ELSE (IF Len(Head(article_list).key_takeaways) > 0
            THEN <<Head(article_list).key_takeaways[1]>> ELSE <<>>)
         \o FirstTakeaways(Tail(article_list))

\* The fallback that goes through all the articles of the category.
FallbackTakeawaysOfAll(article_list) == FirstTakeaways(article_list)

\* The fallback takeaways: over articles[:3].
FallbackTakeaways(article_list) == FirstTakeaways(SubSeqTo(article_list, 3))

\* f"Today's {category_name} coverage includes {len(articles)} articles."
FallbackSynthesis(category_name, article_list) ==
    <<Part("text", "Today's "), Part("category_name", category_name),
      Part("text", " coverage includes "), Part("len", Len(article_list)),
      Part("text", " articles.")>>

\* A text that is one string: empty for "".
Text(v) == IF v = "" THEN <<>> ELSE <<Part("text", v)>>

\* The branch for one article: its summary, its first three takeaways.
SingleArticleDigest(category_name, article_list) ==
    CategoryDigest(category_name, Len(article_list), article_list,
        IF article_list[1].summary \in {None, ""}
            THEN <<Part("text", "One article from "),
                   Part("feed_name", article_list[1].feed_name),
                   Part("text", ".")>>
            ELSE Text(article_list[1].summary),
        SubSeqTo(article_list[1].key_takeaways, 3))

\* CategoryDigest is a pydantic model: synthesis is a str and top_takeaways
\* a list of str, or the constructor raises ValidationError.
AnswerValid(parsed) ==
    /\ DictGet(parsed.synthesis, JsonStr("")).t = "str"
    /\ DictGet(parsed.top_takeaways, JsonList(<<>>)).t = "list"

\* The CategoryDigest of an answer that validates.
AnsweredDigest(category_name, article_list, parsed) ==
    CategoryDigest(category_name, Len(article_list), article_list,
        Text(DictGet(parsed.synthesis, JsonStr("")).s),
        DictGet(parsed.top_takeaways, JsonList(<<>>)).l)

\* The CategoryDigest of the except clause.
FallbackDigest(category_name, article_list) ==
    CategoryDigest(category_name, Len(article_list), article_list,
        FallbackSynthesis(category_name, article_list),
        FallbackTakeaways(article_list))

\* _build_category_digest(category_name, articles) is called; with one
\* article its summary and its first three takeaways are taken at once.
_build_category_digest(category_name, article_list) ==
    /\ digest.pc = "idle"
    /\ digest' =
        IF Len(article_list) > 1
        THEN [NoDigest EXCEPT !.pc = "generate_content",
                              !.category_name = category_name,
                              !.articles = article_list]
        ELSE [NoDigest EXCEPT
                !.pc = "returned",
                !.category_name = category_name,
                !.articles = article_list,
                !.result = Some(SingleArticleDigest(category_name, article_list))]
    /\ UNCHANGED <<runs, build, setlog>>

\* The call of the model returns and its answer is read; the CategoryDigest
\* is built after the try statement, so its ValidationError is not caught.
SynthesisAnswered ==
    /\ digest.pc = "generate_content"
    /\ \E parsed \in SynthesisAnswers :
        digest' =
            IF AnswerValid(parsed)
            THEN [digest EXCEPT
                    !.pc = "returned",
                    !.llm_calls = @ + 1,
                    !.result = Some(AnsweredDigest(digest.category_name,
                                        digest.articles, parsed))]
            ELSE [digest EXCEPT
                    !.pc = "returned",
                    !.llm_calls = @ + 1,
                    !.raised = Some(ValidationError)]
    /\ UNCHANGED <<runs, build, setlog>>

\* The call or the reading of its answer raises: except Exception falls
\* back to the simple aggregation.
SynthesisRaised ==
    /\ digest.pc = "generate_content"
    /\ \E e \in SynthesisErrors :
        digest' = [digest EXCEPT
            !.pc = "returned",
            !.llm_calls = @ + 1,
            !.llm_error = Some(e),
            !.result = Some(FallbackDigest(digest.category_name,
                                           digest.articles))]
    /\ UNCHANGED <<runs, build, setlog>>

\* build_digest goes on to the next category.
NextCategory ==
    /\ digest.pc = "returned"
    /\ digest' = NoDigest
    /\ UNCHANGED <<runs, build, setlog>>

\* ------------------------------------------------------------ build_digest
\* The summarized articles build_digest is called with: the id tells the
\* articles apart, category is the label of their feed.
BuildShapes ==
    {[feed_name |-> "f1", feed_url |-> "u1", summary |-> "s1",
      key_takeaways |-> <<"k1">>],
     [feed_name |-> "f2", feed_url |-> "u2", summary |-> None,
      key_takeaways |-> <<>>],
     [feed_name |-> "f1", feed_url |-> "u1", summary |-> "s2",
      key_takeaways |-> <<"k1", "k2", "k3", "k4">>]}
BuildArticle(id, category, shape) ==
    [id |-> id, category |-> category, feed_name |-> shape.feed_name,
     feed_url |-> shape.feed_url,
     summary |-> shape.summary, key_takeaways |-> shape.key_takeaways]
BuildInputs ==
    UNION {{[i \in 1..n |-> BuildArticle(i, pick[i][1], pick[i][2])] :
                pick \in [1..n -> Categories \X BuildShapes]} :
           n \in 0..MaxArticles}

\* The code points of the category names, by which Python orders str.
CodePoints(name) == IF name = "" THEN <<>> ELSE <<116, 101, 99, 104>>
StrLess(a, b) == TextLess(CodePoints(a), CodePoints(b))

\* by_category[category]: the articles of the category, in input order.
ByCategory(article_list, category) ==
    SelectSeq(article_list, LAMBDA a : a.category = category)

RECURSIVE KeysInInsertionOrder(_)
\* The keys of by_category as the dictionary holds them: by first
\* occurrence.
KeysInInsertionOrder(article_list) ==
    IF article_list = <<>> THEN <<>>
    ELSE LET front == KeysInInsertionOrder(SubSeq(article_list, 1, Len(article_list) - 1))
             name == article_list[Len(article_list)].category
         IN  IF \E i \in DOMAIN front : front[i] = name THEN front
             ELSE Append(front, name)

\* sorted(by_category.items()): the names in ascending order of str.
SortedKeys(article_list) ==
    LET names == {article_list[i].category : i \in DOMAIN article_list}
    IN  CHOOSE seq \in Orderings(names) :
            \A i \in 1..(Len(seq) - 1) : StrLess(seq[i], seq[i + 1])

\* What one call for a category does: nothing (one article), an answer,
\* an exception.
NoParsed == [synthesis |-> Absent, top_takeaways |-> Absent]
NoExc == Exc("", "")
Outcome(kind, parsed, e) == [kind |-> kind, parsed |-> parsed, e |-> e]
CategoryOutcomes(article_list) ==
    IF Len(article_list) > 1
        THEN {Outcome("answer", parsed, NoExc) : parsed \in SynthesisAnswers}
             \cup {Outcome("raise", NoParsed, e) : e \in SynthesisErrors}
        ELSE {Outcome("none", NoParsed, NoExc)}

\* _build_category_digest as a function of what the call does: the
\* CategoryDigest it returns, or the exception it raises.
CategoryResult(category_name, article_list, outcome) ==
    IF outcome.kind = "none"
        THEN [raised |-> Absent,
              value |-> Some(SingleArticleDigest(category_name, article_list))]
    ELSE IF outcome.kind = "raise"
        THEN [raised |-> Absent,
              value |-> Some(FallbackDigest(category_name, article_list))]
    ELSE IF AnswerValid(outcome.parsed)
        THEN [raised |-> Absent,
              value |-> Some(AnsweredDigest(category_name, article_list,
                                            outcome.parsed))]
    ELSE [raised |-> Some(ValidationError), value |-> Absent]

\* What the model answers to the overall prompt, as for the categories.
OverallAnswers ==
    {[overall_themes |-> Some(JsonList(<<"th1">>)),
      must_read_overall |-> Some(JsonList(<<"u1">>))],
     [overall_themes |-> Absent, must_read_overall |-> Absent],
     [overall_themes |-> Some(JsonNull),
      must_read_overall |-> Some(JsonList(<<>>))]}
NoOverall == [overall_themes |-> Absent, must_read_overall |-> Absent]
OverallOutcomes ==
    {Outcome("answer", parsed, NoExc) : parsed \in OverallAnswers}
    \cup {Outcome("raise", NoOverall, e) : e \in SynthesisErrors}

\* _synthesize_overall: (overall_themes, must_read); ([], []) without
\* categories and from its except clause.
_synthesize_overall(category_digests, outcome) ==
    IF category_digests = <<>> \/ outcome.kind # "answer"
        THEN [overall_themes |-> JsonList(<<>>), must_read |-> JsonList(<<>>)]
        ELSE [overall_themes |->
                DictGet(outcome.parsed.overall_themes, JsonList(<<>>)),
              must_read |->
                DictGet(outcome.parsed.must_read_overall, JsonList(<<>>))]

\* DailyDigest(...): the fields the claims are about.
DailyDigest(categories, total_articles, total_feeds, overall_themes, must_read) ==
    [categories |-> categories, total_articles |-> total_articles,
     total_feeds |-> total_feeds, overall_themes |-> overall_themes,
     must_read |-> must_read]

NoBuild == [pc |-> "idle", articles |-> <<>>, names |-> <<>>,
            category_digests |-> <<>>, outcomes |-> <<>>,
            overall |-> Outcome("none", NoOverall, NoExc),
            raised |-> Absent, result |-> Absent]

\* build_digest(articles) is called: the articles are grouped and the
\* categories put in order.
build_digest(article_list) ==
    /\ build.pc = "idle"
    /\ build' = [NoBuild EXCEPT
                    !.pc = IF article_list = <<>> THEN "overall"
                                                  ELSE "categories",
                    !.articles = article_list,
                    !.names = SortedKeys(article_list)]
    /\ UNCHANGED <<runs, digest, setlog>>

\* One turn of the loop over the categories.
BuildCategory ==
    /\ build.pc = "categories"
    /\ LET name == build.names[Len(build.category_digests) + 1]
           group == ByCategory(build.articles, name)
       IN  \E outcome \in CategoryOutcomes(group) :
            LET r == CategoryResult(name, group, outcome) IN
            build' =
                IF r.raised # Absent
                THEN [build EXCEPT !.pc = "raised", !.raised = r.raised,
                                   !.outcomes = Append(@, outcome)]
                ELSE [build EXCEPT
                        !.pc = IF Len(build.category_digests) + 1 =
                                    Len(build.names)
                                THEN "overall" ELSE "categories",
                        !.category_digests = Append(@, r.value[1]),
                        !.outcomes = Append(@, outcome)]
    /\ UNCHANGED <<runs, digest, setlog>>

\* _synthesize_overall and the DailyDigest, whose constructor validates
\* overall_themes and must_read as lists of str outside any try statement.
BuildOverall ==
    /\ build.pc = "overall"
    /\ \E outcome \in IF build.category_digests = <<>>
                        THEN {Outcome("none", NoOverall, NoExc)}
                        ELSE OverallOutcomes :
        LET o == _synthesize_overall(build.category_digests, outcome) IN
        build' =
            IF o.overall_themes.t = "list" /\ o.must_read.t = "list"
            THEN [build EXCEPT
                    !.pc = "returned",
                    !.overall = outcome,
                    !.result = Some(DailyDigest(build.category_digests,
                        Len(build.articles),
                        Cardinality({build.articles[i].feed_url :
                                        i \in DOMAIN build.articles}),
                        o.overall_themes.l, o.must_read.l))]
            ELSE [build EXCEPT !.pc = "raised", !.overall = outcome,
                               !.raised = Some(ValidationError)]
    /\ UNCHANGED <<runs, digest, setlog>>

\* The call is over (returned or raised); the builder may be called again.
BuildAgain ==
    /\ build.pc \in {"returned", "raised"}
    /\ build' = NoBuild
    /\ UNCHANGED <<runs, digest, setlog>>

\* --------------------------------------------------------- specifications
\* The groups of variables a specification does not use stay idle.
SchedIdle ==
    /\ crontab = <<>>
    /\ cron = NoCron

IngestIdle ==
    /\ feeds = <<>>
    /\ ing = [run |-> 0, k |-> 0, found |-> 0, new |-> 0, urls0 |-> {}]
    /\ reports = <<>>
    /\ feed_status = <<>>

StoreIdle ==
    /\ articles = {}
    /\ pending = {}
    /\ lock = 0
    /\ calls = <<>>
    /\ last = NoCall

CacheIdle ==
    /\ cache = {}
    /\ now = StartTick
    /\ lastc = NoCacheCall

KeyIdle == keylog = <<>>

AnalyzeIdle ==
    /\ KeyIdle
    /\ sum = NoSummarize
    /\ batch = NoBatch
    /\ fetch = NoFetch
    /\ fall = NoFetchAll
    /\ runs = NoRuns
    /\ digest = NoDigest
    /\ build = NoBuild
    /\ setlog = NoSetLog

StoreInit ==
    /\ StoreIdle
    /\ IngestIdle
    /\ SchedIdle
    /\ CacheIdle
    /\ AnalyzeIdle

StoreNext ==
    \/ /\ \E id \in Ids, url \in Urls, title \in Titles :
                save_article(Article(id, url, title))
       /\ UNCHANGED <<ingestVars, schedVars, cacheVars, analyzeVars, fetchVars, runVars>>
    \/ /\ \E id \in Ids, st \in ArticleStatus : update_article_status(id, st)
       /\ UNCHANGED <<ingestVars, schedVars, cacheVars, analyzeVars, fetchVars, runVars>>
    \/ /\ \E id \in Ids, s \in SummaryInputs : update_article_summary(id, s)
       /\ UNCHANGED <<ingestVars, schedVars, cacheVars, analyzeVars, fetchVars, runVars>>

StoreSpec == StoreInit /\ [][StoreNext]_vars

\* N concurrent callers (1 <= N <= MaxCallers) hold articles of one URL that
\* is not stored yet; the table may hold the other URLs' articles.
SaveInit ==
    /\ \E url \in Urls :
        /\ \E old \in SUBSET UNION {StoredRows(u) : u \in Urls \ {url}} :
                /\ \A r1, r2 \in old : r1.url = r2.url => r1 = r2
                /\ articles = old
        /\ \E n \in 1..MaxCallers :
            \E titles \in [1..n -> Titles] :
                calls = [t \in 1..n |->
                    [pc |-> "called",
                     article |-> Article(generate_article_id(url), url, titles[t]),
                     rowcount |-> 0, error |-> FALSE, ret |-> "None"]]
    /\ pending = articles
    /\ lock = 0
    /\ last = NoCall
    /\ IngestIdle
    /\ SchedIdle
    /\ CacheIdle
    /\ AnalyzeIdle

SaveNext ==
    \/ /\ \E t \in Callers : Execute(t)
       /\ UNCHANGED <<ingestVars, schedVars, cacheVars, analyzeVars, fetchVars, runVars>>
    \/ /\ \E t \in Callers : Leave(t)
       /\ UNCHANGED <<ingestVars, schedVars, cacheVars, analyzeVars, fetchVars, runVars>>

SaveSpec == SaveInit /\ [][SaveNext]_vars

\* The store holds what earlier runs left: any of the URLs, in any status.
IngestInit ==
    /\ \E old \in SUBSET {r \in UNION {StoredRows(u) : u \in Urls} : r.title = "t2"} :
            /\ \A r1, r2 \in old : r1.url = r2.url => r1 = r2
            /\ articles = old
    /\ pending = articles
    /\ lock = 0
    /\ calls = <<>>
    /\ last = NoCall
    /\ \E n \in 0..MaxFeeds : feeds \in [1..n -> FeedResults]
    /\ ing = [run |-> 1, k |-> 0, found |-> 0, new |-> 0, urls0 |-> StoredUrls]
    /\ reports = <<>>
    /\ feed_status = <<>>
    /\ SchedIdle
    /\ CacheIdle
    /\ AnalyzeIdle

IngestNext ==
    \/ IngestSave
    \/ IngestReturn

IngestSpec == IngestInit /\ [][IngestNext]_vars

CacheInit ==
    /\ CacheIdle
    /\ StoreIdle
    /\ IngestIdle
    /\ SchedIdle
    /\ AnalyzeIdle

CacheNext ==
    \/ /\ \E s \in Slots : get(s[1], s[2])
       /\ UNCHANGED <<storeVars, ingestVars, schedVars, analyzeVars, fetchVars, runVars>>
    \/ /\ \E s \in Slots, value \in Values, ttl_days \in TtlDays, dt \in {0, 1} :
                set(s[1], s[2], value, ttl_days, dt)
       /\ UNCHANGED <<storeVars, ingestVars, schedVars, analyzeVars, fetchVars, runVars>>
    \/ /\ \E kind \in Kinds \cup {None} : clear(kind)
       /\ UNCHANGED <<storeVars, ingestVars, schedVars, analyzeVars, fetchVars, runVars>>
    \/ /\ stats
       /\ UNCHANGED <<storeVars, ingestVars, schedVars, analyzeVars, fetchVars, runVars>>
    \/ /\ Tick
       /\ UNCHANGED <<storeVars, ingestVars, schedVars, analyzeVars, fetchVars, runVars>>

CacheSpec == CacheInit /\ [][CacheNext]_vars

KeyInit ==
    /\ AnalyzeIdle
    /\ StoreIdle
    /\ IngestIdle
    /\ SchedIdle
    /\ CacheIdle

KeyNext ==
    /\ \E article_id \in Strs, model \in Strs : KeyCall(article_id, model)
    /\ UNCHANGED <<storeVars, ingestVars, schedVars, cacheVars, fetchVars, runVars>>

KeySpec == KeyInit /\ [][KeyNext]_vars

SummarizerInit ==
    /\ CacheIdle
    /\ StoreIdle
    /\ IngestIdle
    /\ SchedIdle
    /\ AnalyzeIdle

SummarizerNext ==
    \/ /\ \E article_id \in SumArticleIds, model_name \in SumModels :
                summarize_article(article_id, model_name)
       /\ UNCHANGED <<storeVars, ingestVars, schedVars, fetchVars, runVars>>
    \/ /\ SumCacheCheck
       /\ UNCHANGED <<storeVars, ingestVars, schedVars, fetchVars, runVars>>
    \/ /\ SumGenerate
       /\ UNCHANGED <<storeVars, ingestVars, schedVars, fetchVars, runVars>>
    \/ /\ SumStore
       /\ UNCHANGED <<storeVars, ingestVars, schedVars, fetchVars, runVars>>
    \/ /\ Tick
       /\ UNCHANGED <<storeVars, ingestVars, schedVars, analyzeVars, fetchVars, runVars>>

SummarizerSpec == SummarizerInit /\ [][SummarizerNext]_vars

BatchInit ==
    /\ AnalyzeIdle
    /\ CacheIdle
    /\ StoreIdle
    /\ IngestIdle
    /\ SchedIdle

BatchNext ==
    \/ /\ \E article_list \in ArticleLists, on_progress \in OnProgress :
                summarize_batch(article_list, on_progress)
       /\ UNCHANGED <<storeVars, ingestVars, schedVars, cacheVars, fetchVars, runVars>>
    \/ /\ \E i \in DOMAIN batch.futures : WorkerStart(i)
       /\ UNCHANGED <<storeVars, ingestVars, schedVars, cacheVars, fetchVars, runVars>>
    \/ /\ \E i \in DOMAIN batch.futures : WorkerFinish(i)
       /\ UNCHANGED <<storeVars, ingestVars, schedVars, cacheVars, fetchVars, runVars>>
    \/ /\ \E i \in DOMAIN batch.futures : Collect(i)
       /\ UNCHANGED <<storeVars, ingestVars, schedVars, cacheVars, fetchVars, runVars>>
    \/ /\ BatchReturn
       /\ UNCHANGED <<storeVars, ingestVars, schedVars, cacheVars, fetchVars, runVars>>

BatchSpec == BatchInit /\ [][BatchNext]_vars

\* summarize_batch over a provider that answers or stays silent.
ProviderInit ==
    /\ AnalyzeIdle
    /\ CacheIdle
    /\ StoreIdle
    /\ IngestIdle
    /\ SchedIdle

ProviderFrame == UNCHANGED <<storeVars, ingestVars, schedVars, cacheVars, fetchVars, runVars>>

ProviderBatch == (\E article_list \in ArticleLists, on_progress \in OnProgress : summarize_batch(article_list, on_progress)) /\ ProviderFrame
ProviderStart == (\E i \in DOMAIN batch.futures : WorkerStart(i)) /\ ProviderFrame
ProviderCall == (\E i \in DOMAIN batch.futures : WorkerCall(i, SummarizerRequest)) /\ ProviderFrame
ProviderClientCall == (\E i \in DOMAIN batch.futures : WorkerCall(i, GeminiClientRequest)) /\ ProviderFrame
ProviderAnswer == (\E i \in DOMAIN batch.futures : ProviderAnswers(i)) /\ ProviderFrame
ProviderTimeout == (\E i \in DOMAIN batch.futures : CallTimesOut(i)) /\ ProviderFrame
ProviderCollect == (\E i \in DOMAIN batch.futures : Collect(i)) /\ ProviderFrame
ProviderReturn == BatchReturn /\ ProviderFrame

ProviderNext ==
    \/ ProviderBatch
    \/ ProviderStart
    \/ ProviderCall
    \/ ProviderClientCall
    \/ ProviderAnswer
    \/ ProviderTimeout
    \/ ProviderCollect
    \/ ProviderReturn

\* The threads go on running and the HTTP client raises when a timeout has
\* run out; nothing is assumed of the provider.
ProviderFairness ==
    /\ WF_vars(ProviderStart)
    /\ WF_vars(ProviderCall \/ ProviderClientCall)
    /\ WF_vars(ProviderTimeout)
    /\ WF_vars(ProviderCollect)
    /\ WF_vars(ProviderReturn)

ProviderSpec == ProviderInit /\ [][ProviderNext]_vars /\ ProviderFairness

FetchInit ==
    /\ AnalyzeIdle
    /\ CacheIdle
    /\ StoreIdle
    /\ IngestIdle
    /\ SchedIdle

FetchNext ==
    \/ /\ \E feed_url \in FeedUrls, max_articles \in MaxArticlesArgs,
            timeout \in Timeouts :
                fetch_feed(feed_url, max_articles, timeout)
       /\ UNCHANGED <<storeVars, ingestVars, schedVars, cacheVars, analyzeVars, fall, runVars>>
    \/ /\ Request
       /\ UNCHANGED <<storeVars, ingestVars, schedVars, cacheVars, analyzeVars, fall, runVars>>
    \/ /\ Parse
       /\ UNCHANGED <<storeVars, ingestVars, schedVars, cacheVars, analyzeVars, fall, runVars>>

FetchSpec == FetchInit /\ [][FetchNext]_vars

FetchAllInit ==
    /\ AnalyzeIdle
    /\ CacheIdle
    /\ StoreIdle
    /\ IngestIdle
    /\ SchedIdle

FetchAllNext ==
    \/ /\ \E config \in FeedConfigs : fetch_all_feeds(config)
       /\ UNCHANGED <<storeVars, ingestVars, schedVars, cacheVars, analyzeVars, runVars>>
    \/ /\ \E i \in DOMAIN fall.futures : FeedWorkerStart(i)
       /\ UNCHANGED <<storeVars, ingestVars, schedVars, cacheVars, analyzeVars, runVars>>
    \/ /\ \E i \in DOMAIN fall.futures : FeedWorkerFinish(i)
       /\ UNCHANGED <<storeVars, ingestVars, schedVars, cacheVars, analyzeVars, runVars>>
    \/ /\ \E i \in DOMAIN fall.futures : FeedCollect(i)
       /\ UNCHANGED <<storeVars, ingestVars, schedVars, cacheVars, analyzeVars, runVars>>
    \/ /\ FetchAllReturn
       /\ UNCHANGED <<storeVars, ingestVars, schedVars, cacheVars, analyzeVars, runVars>>

FetchAllSpec == FetchAllInit /\ [][FetchAllNext]_vars

\* fetch_feed over feeds longer than the scan.
ScanInit ==
    /\ AnalyzeIdle
    /\ CacheIdle
    /\ StoreIdle
    /\ IngestIdle
    /\ SchedIdle

ScanNext ==
    \/ /\ \E feed_url \in FeedUrls, max_articles \in MaxArticlesArgs,
            timeout \in Timeouts :
                fetch_feed(feed_url, max_articles, timeout)
       /\ UNCHANGED <<storeVars, ingestVars, schedVars, cacheVars, analyzeVars, fall, runVars>>
    \/ /\ Request
       /\ UNCHANGED <<storeVars, ingestVars, schedVars, cacheVars, analyzeVars, fall, runVars>>
    \/ /\ ScanParse
       /\ UNCHANGED <<storeVars, ingestVars, schedVars, cacheVars, analyzeVars, fall, runVars>>

ScanSpec == ScanInit /\ [][ScanNext]_vars

\* fetch_feed over feeds whose entries carry their dates.
EntryInit ==
    /\ AnalyzeIdle
    /\ CacheIdle
    /\ StoreIdle
    /\ IngestIdle
    /\ SchedIdle

EntryNext ==
    \/ /\ \E feed_url \in FeedUrls, max_articles \in MaxArticlesArgs,
            timeout \in Timeouts :
                fetch_feed(feed_url, max_articles, timeout)
       /\ UNCHANGED <<storeVars, ingestVars, schedVars, cacheVars, analyzeVars, fall, runVars>>
    \/ /\ Request
       /\ UNCHANGED <<storeVars, ingestVars, schedVars, cacheVars, analyzeVars, fall, runVars>>
    \/ /\ DatedParse
       /\ UNCHANGED <<storeVars, ingestVars, schedVars, cacheVars, analyzeVars, fall, runVars>>

EntrySpec == EntryInit /\ [][EntryNext]_vars

\* fetch_all_feeds over hosts that answer, fail or stay silent.
TimeoutInit ==
    /\ AnalyzeIdle
    /\ CacheIdle
    /\ StoreIdle
    /\ IngestIdle
    /\ SchedIdle

TimeoutFrame == UNCHANGED <<storeVars, ingestVars, schedVars, cacheVars, analyzeVars, runVars>>

TimeoutCall == (\E config \in HostConfigs : fetch_all_feeds(config)) /\ TimeoutFrame
TimeoutStart == (\E i \in DOMAIN fall.futures : FeedWorkerStart(i)) /\ TimeoutFrame
TimeoutFetch == (\E i \in DOMAIN fall.futures : FeedWorkerCall(i)) /\ TimeoutFrame
TimeoutSend == SendRequest /\ UNCHANGED fall /\ TimeoutFrame
TimeoutAnswer == FeedHostAnswers /\ TimeoutFrame
TimeoutFail == RequestFails /\ fetch'.raised[1].cls = "ConnectError" /\ UNCHANGED fall /\ TimeoutFrame
TimeoutElapse == TimeoutElapses /\ UNCHANGED fall /\ TimeoutFrame
TimeoutParse == FeedParse /\ TimeoutFrame
TimeoutDone == (\E i \in DOMAIN fall.futures : FeedWorkerReturn(i)) /\ TimeoutFrame
TimeoutCollect == (\E i \in DOMAIN fall.futures : FeedCollect(i)) /\ TimeoutFrame
TimeoutReturn == FetchAllReturn /\ TimeoutFrame

TimeoutNext ==
    \/ TimeoutCall
    \/ TimeoutStart
    \/ TimeoutFetch
    \/ TimeoutSend
    \/ TimeoutAnswer
    \/ TimeoutFail
    \/ TimeoutElapse
    \/ TimeoutParse
    \/ TimeoutDone
    \/ TimeoutCollect
    \/ TimeoutReturn

\* The threads of the pool and the main thread go on running, and httpx
\* raises when a timeout has run out; nothing is assumed of the hosts.
TimeoutFairness ==
    /\ WF_vars(TimeoutStart)
    /\ WF_vars(TimeoutFetch)
    /\ WF_vars(TimeoutSend)
    /\ WF_vars(TimeoutElapse)
    /\ WF_vars(TimeoutParse)
    /\ WF_vars(TimeoutDone)
    /\ WF_vars(TimeoutCollect)
    /\ WF_vars(TimeoutReturn)

TimeoutSpec == TimeoutInit /\ [][TimeoutNext]_vars /\ TimeoutFairness

AnalysisInit ==
    /\ StoreIdle
    /\ IngestIdle
    /\ SchedIdle
    /\ CacheIdle
    /\ AnalyzeIdle

AnalysisNext ==
    \/ /\ \E url \in Urls : save_article(Article(generate_article_id(url), url, "t1"))
       /\ UNCHANGED <<ingestVars, schedVars, cacheVars, analyzeVars, fetchVars, runVars>>
    \/ /\ \E r \in Runs : RunSelect(r)
       /\ UNCHANGED <<ingestVars, schedVars, cacheVars, analyzeVars, fetchVars, digest, build, setlog>>
    \/ /\ \E r \in Runs : RunSummarize(r)
       /\ UNCHANGED <<ingestVars, schedVars, cacheVars, analyzeVars, fetchVars, digest, build, setlog>>
    \/ /\ \E r \in Runs : RunUpdate(r)
       /\ UNCHANGED <<ingestVars, schedVars, cacheVars, analyzeVars, fetchVars, digest, build, setlog>>
    \/ /\ \E r \in Runs : RunReturn(r)
       /\ UNCHANGED <<ingestVars, schedVars, cacheVars, analyzeVars, fetchVars, digest, build, setlog>>
    \/ /\ \E r \in Runs : RunAgain(r)
       /\ UNCHANGED <<ingestVars, schedVars, cacheVars, analyzeVars, fetchVars, digest, build, setlog>>

AnalysisSpec == AnalysisInit /\ [][AnalysisNext]_vars

DigestInit ==
    /\ StoreIdle
    /\ IngestIdle
    /\ SchedIdle
    /\ CacheIdle
    /\ AnalyzeIdle

DigestNext ==
    \/ /\ \E category_name \in Categories, article_list \in CategoryArticles : _build_category_digest(category_name, article_list)
       /\ UNCHANGED <<storeVars, ingestVars, schedVars, cacheVars, analyzeVars, fetchVars>>
    \/ /\ SynthesisAnswered
       /\ UNCHANGED <<storeVars, ingestVars, schedVars, cacheVars, analyzeVars, fetchVars>>
    \/ /\ SynthesisRaised
       /\ UNCHANGED <<storeVars, ingestVars, schedVars, cacheVars, analyzeVars, fetchVars>>
    \/ /\ NextCategory
       /\ UNCHANGED <<storeVars, ingestVars, schedVars, cacheVars, analyzeVars, fetchVars>>

DigestSpec == DigestInit /\ [][DigestNext]_vars

BuildInit ==
    /\ StoreIdle
    /\ IngestIdle
    /\ SchedIdle
    /\ CacheIdle
    /\ AnalyzeIdle

BuildNext ==
    \/ /\ \E article_list \in BuildInputs : build_digest(article_list)
       /\ UNCHANGED <<storeVars, ingestVars, schedVars, cacheVars, analyzeVars, fetchVars>>
    \/ /\ BuildCategory
       /\ UNCHANGED <<storeVars, ingestVars, schedVars, cacheVars, analyzeVars, fetchVars>>
    \/ /\ BuildOverall
       /\ UNCHANGED <<storeVars, ingestVars, schedVars, cacheVars, analyzeVars, fetchVars>>
    \/ /\ BuildAgain
       /\ UNCHANGED <<storeVars, ingestVars, schedVars, cacheVars, analyzeVars, fetchVars>>

BuildSpec == BuildInit /\ [][BuildNext]_vars

QueryInit ==
    /\ StoreIdle
    /\ IngestIdle
    /\ SchedIdle
    /\ CacheIdle
    /\ AnalyzeIdle

QueryNext ==
    \/ /\ \E url \in Urls, published \in PublishedTimes : save_article(ArticleAt(generate_article_id(url), url, "t1", published))
       /\ UNCHANGED <<ingestVars, schedVars, cacheVars, analyzeVars, fetchVars, runVars>>
    \/ /\ \E id \in Ids : update_article_status(id, SUMMARIZED)
       /\ UNCHANGED <<ingestVars, schedVars, cacheVars, analyzeVars, fetchVars, runVars>>
    \/ /\ \E limit \in Limits : get_pending_articles(limit)
       /\ UNCHANGED <<ingestVars, schedVars, cacheVars, analyzeVars, fetchVars, runVars>>
    \/ /\ \E t \in Instants, status \in {"", PENDING} : get_articles_since(Datetime(t, 0), status)
       /\ UNCHANGED <<ingestVars, schedVars, cacheVars, analyzeVars, fetchVars, runVars>>

QuerySpec == QueryInit /\ [][QueryNext]_vars

CacheRowsInit ==
    /\ CacheIdle
    /\ StoreIdle
    /\ IngestIdle
    /\ SchedIdle
    /\ AnalyzeIdle

CacheRowsNext ==
    \/ /\ \E s \in Slots : get(s[1], s[2])
       /\ UNCHANGED <<storeVars, ingestVars, schedVars, analyzeVars, fetchVars, runs, digest, build, setlog>>
    \/ /\ \E s \in Slots, value \in Values, ttl_days \in GivenTtlDays, dt \in {0, 1} :
                /\ set(s[1], s[2], value, ttl_days, dt)
                /\ setlog' = SetLog(cache, cache', s[1], s[2], now)
       /\ UNCHANGED <<storeVars, ingestVars, schedVars, analyzeVars, fetchVars, runs, digest, build>>
    \/ /\ \E kind \in Kinds \cup {None} : clear(kind)
       /\ UNCHANGED <<storeVars, ingestVars, schedVars, analyzeVars, fetchVars, runs, digest, build, setlog>>
    \/ /\ stats
       /\ UNCHANGED <<storeVars, ingestVars, schedVars, analyzeVars, fetchVars, runs, digest, build, setlog>>
    \/ /\ Tick
       /\ setlog' = NoSetLog
       /\ UNCHANGED <<storeVars, ingestVars, schedVars, analyzeVars, fetchVars, runs, digest, build>>

CacheRowsSpec == CacheRowsInit /\ [][CacheRowsNext]_vars

\* Ingestion and run_analysis runs as the hours pass.
LookbackInit == AnalysisInit

LookbackRunFrame == UNCHANGED <<ingestVars, schedVars, cacheVars, analyzeVars, fetchVars, digest, build, setlog>>

LookbackSave ==
    /\ \E url \in Urls, t \in 0..MaxNow : SaveRecent(url, t)
    /\ UNCHANGED <<ingestVars, schedVars, cacheVars, analyzeVars, fetchVars, runVars>>

LookbackSelect(r) == RunSelectSince(r) /\ LookbackRunFrame
LookbackSummarize(r) == RunSummarize(r) /\ LookbackRunFrame
LookbackUpdate(r) == RunUpdate(r) /\ LookbackRunFrame
LookbackReturn(r) == RunReturn(r) /\ LookbackRunFrame
LookbackAgain(r) == RunAgain(r) /\ LookbackRunFrame

LookbackHour ==
    /\ HourPasses
    /\ UNCHANGED <<storeVars, ingestVars, schedVars, analyzeVars, fetchVars, runVars>>

\* The runs follow one another here: they are the runs of one process.
LookbackRuns == {"r1"}

LookbackNext ==
    \/ LookbackSave
    \/ \E r \in LookbackRuns : LookbackSelect(r)
    \/ \E r \in LookbackRuns : LookbackSummarize(r)
    \/ \E r \in LookbackRuns : LookbackUpdate(r)
    \/ \E r \in LookbackRuns : LookbackReturn(r)
    \/ \E r \in LookbackRuns : LookbackAgain(r)
    \/ LookbackHour

\* Every run_analysis run is started again when it is over, and every step
\* of a run is taken: each LLM call returns or fails.  Nothing is assumed
\* of the clock or of ingestion.
LookbackFairness ==
    \A r \in LookbackRuns :
        /\ WF_vars(LookbackSelect(r))
        /\ WF_vars(LookbackSummarize(r))
        /\ WF_vars(LookbackUpdate(r))
        /\ WF_vars(LookbackReturn(r))
        /\ WF_vars(LookbackAgain(r))

LookbackSpec == LookbackInit /\ [][LookbackNext]_vars /\ LookbackFairness

\* update_feed_status calls on one database as time passes.
FeedStatusInit == AnalysisInit

FeedStatusNext ==
    \/ /\ \E feed_url \in StatusUrls, feed_name \in StatusNames,
            success \in BOOLEAN, error \in StatusErrors :
                /\ success => error = None
                /\ update_feed_status(feed_url, feed_name, success, error)
       /\ UNCHANGED <<schedVars, cacheVars, analyzeVars, fetchVars, runVars>>
    \/ /\ Tick
       /\ UNCHANGED <<storeVars, ingestVars, schedVars, analyzeVars, fetchVars, runVars>>

FeedStatusSpec == FeedStatusInit /\ [][FeedStatusNext]_vars

\* install_cron calls on the crontab of a user who edits it as well.
CronInit == AnalysisInit

CronNext ==
    \/ /\ \E plan \in Plans, replace_existing \in BOOLEAN :
            install_cron(plan, replace_existing)
       /\ UNCHANGED <<storeVars, ingestVars, cacheVars, analyzeVars, fetchVars, runVars>>
    \/ /\ \E line \in UserLines : EditCrontab(line)
       /\ UNCHANGED <<storeVars, ingestVars, cacheVars, analyzeVars, fetchVars, runVars>>

CronSpec == CronInit /\ [][CronNext]_vars

\* Concurrent CacheStore calls on one cache database.
CacheTxnInit ==
    /\ articles = {}
    /\ last = NoCall
    /\ pending = {}
    /\ lock = 0
    /\ calls = [c \in TxnCallers |-> NoTxnCall]
    /\ CacheIdle
    /\ IngestIdle
    /\ SchedIdle
    /\ AnalyzeIdle

CacheTxnFrame == UNCHANGED <<articles, last, ingestVars, schedVars, analyzeVars, fetchVars, runVars>>

CacheTxnNext ==
    \/ /\ \E c \in TxnCallers, s \in TxnSets :
            TxnSet(c, s.kind, s.key, s.value, s.ttl_days)
       /\ CacheTxnFrame
    \/ /\ \E c \in TxnCallers : TxnInsert(c)
       /\ CacheTxnFrame
    \/ /\ \E c \in TxnCallers : TxnCleanup(c)
       /\ CacheTxnFrame
    \/ /\ \E c \in TxnCallers, kind \in {"summary", None} : TxnClear(c, kind)
       /\ CacheTxnFrame
    \/ /\ \E c \in TxnCallers : TxnDelete(c)
       /\ CacheTxnFrame
    \/ /\ \E c \in TxnCallers : TxnBusy(c)
       /\ CacheTxnFrame
    \/ /\ \E c \in TxnCallers : TxnCommit(c)
       /\ CacheTxnFrame
    \/ /\ \E c \in TxnCallers : TxnRollback(c)
       /\ CacheTxnFrame
    \/ /\ \E s \in TxnSlots : TxnGet(s[1], s[2])
       /\ CacheTxnFrame
    \/ /\ TxnTick
       /\ CacheTxnFrame

CacheTxnSpec == CacheTxnInit /\ [][CacheTxnNext]_vars

\* ------------------------------------------------------------------ claims

UniqueRows ==
    \A r1, r2 \in articles : (r1.url = r2.url \/ r1.id = r2.id) => r1 = r2

\* C2: in every reachable state of the store no two rows share a URL and no
\* two rows share an id; and a save_article call that presents a stored URL
\* under a different id returns False and adds no row.
C2_UniqueUrlAndId ==
    /\ []UniqueRows
    /\ [][(/\ last'.op = "save_article"
           /\ \E r \in articles : /\ r.url = last'.article.url
                                  /\ r.id # last'.article.id)
            => (last'.ret = "False" /\ articles' \subseteq articles)]_vars

\* C2's case: a call presented a stored URL under another id and returned
\* False while the table holds two rows.
C2_Witness ==
    /\ last.op = "save_article"
    /\ last.ret = "False"
    /\ Cardinality(articles) = 2
    /\ \E r \in articles : r.url = last.article.url /\ r.id # last.article.id

\* C3: a save_article call for a URL that is already stored returns False,
\* raises nothing and leaves the table, the stored row in every column
\* included, as it was.
C3_DuplicateSaveIsNoOp ==
    [][(/\ last'.op = "save_article"
        /\ \E r \in articles : r.url = last'.article.url)
        => (last'.ret = "False" /\ articles' = articles)]_vars

\* C3's case: an article whose stored row is SUMMARIZED with a summary was
\* presented again, with another title, status PENDING and no summary.
C3_Witness ==
    /\ last.op = "save_article"
    /\ last.ret = "False"
    /\ \E r \in articles :
        /\ r.url = last.article.url
        /\ r.status = SUMMARIZED
        /\ r.summary = "s1"
        /\ r.title # last.article.title
        /\ last.article.status = PENDING

\* C4: of an ingestion run articles_new is the number of inserts that
\* returned True, that is the number of rows the run added, so
\* articles_new <= articles_found; a second run over the same feed
\* contents reports articles_new = 0 with the same articles_found and adds
\* no row.
C4_SecondRunFindsNothingNew ==
    /\ \A i \in 1..Len(reports) :
        LET r == reports[i] IN
        /\ r.articles_new <= r.articles_found
        /\ r.articles_new = Cardinality(r.urls_after \ r.urls_before)
        /\ r.urls_before \subseteq r.urls_after
    /\ Len(reports) >= 2 =>
        /\ reports[2].articles_new = 0
        /\ reports[2].articles_found = reports[1].articles_found
        /\ reports[2].urls_after = reports[2].urls_before
    /\ ing.new <= ing.found
    /\ ing.run = 2 => ing.new = 0

\* C4's case: the first run found three candidates, two of them new (one
\* URL came twice), and the second run has returned.
C4_Witness ==
    /\ Len(reports) = 2
    /\ reports[1].articles_found = 3
    /\ reports[1].articles_new = 2
    /\ reports[2].articles_found = 3

\* C5: a get returns a value only if the cache table holds a row of that
\* kind and key whose expires_at is strictly later than the instant of the
\* lookup, and the value is that row's; a row that is present but expired
\* is never returned.
C5_GetReturnsOnlyUnexpired ==
    lastc.op = "get" =>
        LET rows == {r \in cache : r.kind = lastc.kind /\ r.key = lastc.key}
        IN  /\ lastc.ret # Absent =>
                \E r \in rows : /\ FromIso(r.expires_at) > now
                                /\ lastc.ret = Some(json_loads(r.value))
            /\ (\A r \in rows : FromIso(r.expires_at) <= now) =>
                lastc.ret = Absent

\* C5's case: a get has returned nothing while the row of its kind and key
\* is still in the table, expired.
C5_Witness ==
    /\ lastc.op = "get"
    /\ lastc.ret = Absent
    /\ \E r \in cache : /\ r.kind = lastc.kind
                        /\ r.key = lastc.key
                        /\ FromIso(r.expires_at) <= now

\* C6: a get that follows a set of the same kind and key at once returns a
\* value equal to the one set when the TTL is positive, given or default,
\* and returns nothing when the TTL is negative.
C6_GetAfterSet ==
    (/\ lastc.op = "get"
     /\ lastc.prev # Absent
     /\ lastc.prev[1].kind = lastc.kind
     /\ lastc.prev[1].key = lastc.key) =>
        LET given == lastc.prev[1].ttl_days
            ttl == IF given # Absent THEN given[1] ELSE DefaultTtlDays
        IN  /\ ttl > 0 => lastc.ret = lastc.prev[1].value
            /\ ttl < 0 => lastc.ret = Absent

\* C6's case: a value with a list in it was set under the default TTL while
\* the clock moved, and the get that followed returned it.
C6_Witness ==
    /\ lastc.op = "get"
    /\ lastc.prev # Absent
    /\ lastc.prev[1].kind = lastc.kind
    /\ lastc.prev[1].key = lastc.key
    /\ lastc.prev[1].ttl_days = Absent
    /\ lastc.ret # Absent
    /\ lastc.ret[1].key_takeaways # <<>>
    /\ now > StartTick

\* C6's other case: the TTL given was negative and the get that followed
\* the set returned nothing.
C6_NegativeTtlCase ==
    /\ lastc.op = "get"
    /\ lastc.prev # Absent
    /\ lastc.prev[1].kind = lastc.kind
    /\ lastc.prev[1].key = lastc.key
    /\ lastc.prev[1].ttl_days = Some(-1)
    /\ lastc.ret = Absent

\* C7: make_cache_key is deterministic and injective: of any two calls the
\* keys are equal exactly when the article ids are equal and the models are
\* equal.
C7_KeysInjective ==
    \A i, j \in 1..Len(keylog) :
        (keylog[i].key = keylog[j].key) <=>
            (/\ keylog[i].article_id = keylog[j].article_id
             /\ keylog[i].model = keylog[j].model)

\* The part of C7 that holds: equal pairs give equal keys, and one article
\* id under two different models gives two different keys.
C7_SameArticleOtherModel ==
    \A i, j \in 1..Len(keylog) :
        /\ (/\ keylog[i].article_id = keylog[j].article_id
            /\ keylog[i].model = keylog[j].model)
                => keylog[i].key = keylog[j].key
        /\ (/\ keylog[i].article_id = keylog[j].article_id
            /\ keylog[i].model # keylog[j].model)
                => keylog[i].key # keylog[j].key

\* The unexpired 'summary' rows under the key of the summarize_article call.
SumEntries ==
    {r \in cache : /\ r.kind = "summary"
                   /\ r.key = SumKey
                   /\ FromIso(r.expires_at) > now}

C10_BatchKeepsInputOrder ==
    batch.pc = "returned" =>
        /\ Len(batch.results) = Len(batch.articles)
        /\ \A i \in 1..Len(batch.articles) :
                /\ batch.results[i] # Absent
                /\ batch.results[i][1].article_id = batch.articles[i]

\* C10's case: three articles, the first and the last the same, whose
\* futures were yielded last first; the second raised.
C10_Witness ==
    /\ batch.pc = "returned"
    /\ batch.articles = <<"i1", "i2", "i1">>
    /\ batch.seen = <<3, 1, 2>>
    /\ batch.futures[2].raised
    /\ batch.results[1][1].success

\* C11: summarize_article does not raise when the LLM call does: for every
\* exception of the LLM call it returns a SummaryResult with success false,
\* the exception's text as error, no summary, empty key_takeaways and
\* action_items, and tokens_used 0.
C11_LlmErrorGivesFailureResult ==
    sum.llm_error # Absent =>
        /\ sum.pc = "returned"
        /\ sum.result # Absent
        /\ sum.result[1] = [success |-> FALSE,
                            article_id |-> sum.article_id,
                            summary |-> None,
                            key_takeaways |-> <<>>,
                            action_items |-> <<>>,
                            tokens_used |-> 0,
                            error |-> sum.llm_error[1].msg]

\* C11's case: the LLM call of a second call for an article raised while
\* parsing, after the first call's entry had expired.
C11_Witness ==
    /\ sum.pc = "returned"
    /\ sum.llm_error = Some(Exc("JSONDecodeError", "e2"))
    /\ sum.result[1].error = "e2"
    /\ cache # {}

\* C12: in summarize_batch no failure, be it a failure result or an
\* exception that escapes a worker, cancels or drops the work on the other
\* articles: when the batch returns every future has run, every article has
\* a result, the result of a worker that returned one is that very result,
\* and so the articles whose LLM call succeeded have success true.
C12_BatchIsolatesFailures ==
    batch.pc = "returned" =>
        \A i \in 1..Len(batch.articles) :
            /\ batch.futures[i].state = "done"
            /\ batch.results[i] # Absent
            /\ ~batch.futures[i].raised =>
                    batch.results[i] = batch.futures[i].result
            /\ (/\ batch.futures[i].result # Absent
                /\ batch.futures[i].result[1].success)
                    => batch.results[i][1].success

\* C12's case: of three articles the first got a failure result, the
\* worker of the second raised, and the third succeeded.
C12_Witness ==
    /\ batch.pc = "returned"
    /\ Len(batch.articles) = 3
    /\ ~batch.futures[1].raised
    /\ ~batch.results[1][1].success
    /\ batch.futures[2].raised
    /\ ~batch.results[2][1].success
    /\ batch.results[3][1].success

\* The status codes of the responses fetch_feed has got, in order.
FetchStatuses ==
    [i \in 1..Len(fetch.attempt_summaries) |->
        fetch.attempt_summaries[i].status_code]

\* The body of the last response did not become a feed: the parser raised,
\* or warned and found no entry, or an entry raised.
FetchBodyFailed ==
    \/ fetch.raised # Absent
    \/ fetch.feed # Absent /\ fetch.feed[1].bozo /\ fetch.feed[1].entries = <<>>

\* C13: fetch_feed issues at most two HTTP requests: the first with the
\* feed-agent headers, a second with the browser headers exactly when the
\* first response has status 403 or 404, and never a third; attempts in the
\* result is the number of requests issued.  So 403 then 200 gives
\* attempts = 2, with success = true when the body is a feed, and a first
\* 500 gives success = false with attempts = 1.
C13_AtMostTwoRequests ==
    /\ Len(fetch.requests) <= 2
    /\ Len(fetch.requests) >= 1 => fetch.requests[1].headers = FEED_AGENT_HEADERS
    /\ Len(fetch.requests) = 2 =>
            /\ fetch.requests[2].headers = BROWSER_HEADERS
            /\ Len(FetchStatuses) >= 1
            /\ FetchStatuses[1] \in {403, 404}
    /\ (/\ fetch.pc \in {"parse", "returned"}
        /\ Len(FetchStatuses) >= 1
        /\ FetchStatuses[1] \in {403, 404}) => Len(fetch.requests) = 2
    /\ fetch.pc = "returned" =>
            /\ fetch.result # Absent
            /\ fetch.result[1].attempts = Len(fetch.requests)
            /\ FetchStatuses = <<403, 200>> =>
                    /\ fetch.result[1].attempts = 2
                    /\ fetch.result[1].success = ~FetchBodyFailed
            /\ (Len(FetchStatuses) >= 1 /\ FetchStatuses[1] = 500) =>
                    /\ ~fetch.result[1].success
                    /\ fetch.result[1].attempts = 1

\* C13's case: 403 under the feed-agent headers, 200 under the browser
\* headers, and a successful result with an article and two attempts.
C13_Witness ==
    /\ fetch.pc = "returned"
    /\ FetchStatuses = <<403, 200>>
    /\ fetch.result[1].success
    /\ fetch.result[1].attempts = 2
    /\ Len(fetch.result[1].articles) = 1
    /\ fetch.requests[2].headers = BROWSER_HEADERS

\* C14: when the last request of fetch_feed got a response with a status
\* >= 400, the result has success = false, no articles and that status as
\* status_code, and its error message carries that status, the URL of the
\* response and the status code of every attempt made.
C14_HttpErrorResult ==
    (/\ fetch.pc = "returned"
     /\ Len(FetchStatuses) = Len(fetch.requests)
     /\ FetchStatuses[Len(FetchStatuses)] >= 400) =>
        LET res == fetch.result[1]
            status == FetchStatuses[Len(FetchStatuses)]
            msg == res.error[1]
        IN  /\ ~res.success
            /\ res.articles = <<>>
            /\ res.status_code = Some(status)
            /\ res.error # Absent
            /\ \E i \in 1..Len(msg) :
                    /\ msg[i].t = "HTTP"
                    /\ msg[i].v.status_code = status
                    /\ Some(msg[i].v.url) = res.final_url
                    /\ msg[i].v.url = fetch.response[1].url
            /\ \E i \in 1..Len(msg) :
                    /\ msg[i].t = "attempts"
                    /\ Len(msg[i].v) = Len(fetch.requests)
                    /\ \A k \in 1..Len(msg[i].v) :
                            msg[i].v[k].status_code = FetchStatuses[k]

\* C14's case: 404 under the feed-agent headers, then 403 under the browser
\* headers.
C14_Witness ==
    /\ fetch.pc = "returned"
    /\ FetchStatuses = <<404, 403>>
    /\ fetch.result[1].status_code = Some(403)
    /\ ~fetch.result[1].success

\* C15: fetch_feed does not raise to its caller: a timeout, another HTTP
\* transport error and any other exception, on either attempt or after,
\* each give a FeedResult with success = false, no articles and
\* attempts >= 1; the message of the timeout case, and of no other, carries
\* the configured timeout.
C15_ExceptionsBecomeResults ==
    fetch.raised # Absent =>
        /\ fetch.pc = "returned"
        /\ fetch.result # Absent
        /\ ~fetch.result[1].success
        /\ fetch.result[1].articles = <<>>
        /\ fetch.result[1].attempts >= 1
        /\ fetch.result[1].error # Absent
        /\ LET msg == fetch.result[1].error[1]
               timed == \E i \in 1..Len(msg) :
                            /\ msg[i].t = "Request timed out after"
                            /\ msg[i].v = fetch.timeout
           IN  timed = (fetch.raised[1].cls = "TimeoutException")

\* C15's case: the retry with the browser headers timed out after 5 s.
C15_Witness ==
    /\ fetch.pc = "returned"
    /\ fetch.raised = Some(Exc("TimeoutException", "e1"))
    /\ Len(fetch.requests) = 2
    /\ fetch.timeout = 5
    /\ fetch.result[1].attempts = 2

\* The three rules of C16 for the parsed feed and the result.
BozoRules ==
    LET feed == fetch.feed[1]
        res == fetch.result[1]
    IN  /\ (feed.bozo /\ feed.entries = <<>>) => (~res.success /\ res.bozo)
        /\ (feed.bozo /\ feed.entries # <<>>) => (res.success /\ res.bozo)
        /\ ~feed.bozo => (res.success /\ ~res.bozo)

\* C16: after a response with status < 400 whose body the parser has
\* parsed, a parse warning with no entry gives success = false with
\* bozo = true, a parse warning with at least one entry gives
\* success = true with bozo = true, and no parse warning gives
\* success = true with bozo = false.
C16_SuccessAndBozo ==
    (fetch.pc = "returned" /\ fetch.feed # Absent) => BozoRules

\* The part of C16 that holds: the rules, for the feeds none of whose
\* entries raises.
C16_WhenNoEntryRaises ==
    (fetch.pc = "returned" /\ fetch.feed # Absent /\ fetch.raised = Absent)
        => BozoRules

\* C17: fetch_all_feeds returns exactly one FeedResult for every configured
\* feed that has a URL, in the order in which the fetches were yielded: a
\* fetch that raised gives a result with success = false for its feed, and
\* every other result is the very result its own fetch_feed returned.
C17_OneResultPerFeed ==
    fall.pc = "returned" =>
        LET withUrl == {i \in 1..Len(fall.config) : fall.config[i].url # ""}
            n == Len(fall.fetch_args)
        IN  /\ n = Cardinality(withUrl)
            /\ Len(fall.results) = n
            /\ Len(fall.seen) = n
            /\ \A i \in 1..n : \E k \in 1..n : fall.seen[k] = i
            /\ \A k \in 1..n :
                    LET i == fall.seen[k] IN
                    /\ fall.results[k].feed_url = fall.fetch_args[i].url
                    /\ fall.futures[i].raised => ~fall.results[k].success
                    /\ ~fall.futures[i].raised =>
                            Some(fall.results[k]) = fall.futures[i].result

\* C17's case: three feeds, the second without a URL; the fetch of the
\* third ended first and raised, the fetch of the first succeeded.
C17_Witness ==
    /\ fall.pc = "returned"
    /\ Len(fall.config) = 3
    /\ fall.config[2].url = ""
    /\ fall.seen = <<2, 1>>
    /\ fall.futures[2].raised
    /\ ~fall.results[1].success
    /\ fall.results[2].success

\* C18: an article whose status is SUMMARIZED is still SUMMARIZED, with the
\* same summary, after every step: of save_article, of a run_analysis run,
\* of two runs that overlap and both selected it while it was PENDING.
C18_SummarizedIsPermanent == [][\A row \in articles : row.status = SUMMARIZED => \E kept \in articles' : kept.id = row.id /\ kept.status = SUMMARIZED /\ kept.summary = row.summary]_vars

\* C19: run_analysis changes the status of an article only from PENDING to
\* SUMMARIZED or from PENDING to FAILED: the step that changes it is the
\* loop turn of a run for that article, SUMMARIZED when its result has
\* success = true and FAILED when it has not; and when a run returns, each
\* article it selected has the status of its result, none is still PENDING.
C19_StatusTransitions ==
    [][/\ \A row \in articles : \A after \in articles' :
            (after.id = row.id /\ after.status # row.status) =>
                /\ row.status = PENDING
                /\ \E r \in Runs :
                    /\ runs[r].pc = "update"
                    /\ runs'[r].k = runs[r].k + 1
                    /\ runs[r].selected[runs'[r].k].id = row.id
                    /\ after.status = IF runs[r].results[runs'[r].k].success
                                        THEN SUMMARIZED ELSE FAILED
       /\ \A r \in Runs :
            (runs[r].pc = "update" /\ runs'[r].pc = "returned") =>
                \A i \in DOMAIN runs[r].selected :
                    \E row \in articles' :
                        /\ row.id = runs[r].selected[i].id
                        /\ row.status = IF runs[r].results[i].success
                                          THEN SUMMARIZED ELSE FAILED]_vars

\* C20: when the model call for the synthesis of a category of more than
\* one article raises, the CategoryDigest has a synthesis that is not empty
\* and at most 3 takeaways, each one the first takeaway of an article of
\* its own among the first 3 articles of the category.
C20_SynthesisFallback ==
    (digest.pc = "returned" /\ digest.llm_error # Absent) =>
        LET result == digest.result[1]
            first_three == 1..(IF Len(digest.articles) < 3
                                THEN Len(digest.articles) ELSE 3)
        IN  /\ Len(digest.articles) > 1
            /\ Len(result.synthesis) > 0
            /\ Len(result.top_takeaways) <= 3
            /\ \E of \in [DOMAIN result.top_takeaways -> first_three] :
                /\ \A i, j \in DOMAIN of : of[i] = of[j] => i = j
                /\ \A i \in DOMAIN of :
                    /\ Len(digest.articles[of[i]].key_takeaways) > 0
                    /\ result.top_takeaways[i] =
                            digest.articles[of[i]].key_takeaways[1]

\* The call raised for a category of four articles that all have takeaways.
C20_Witness ==
    /\ digest.pc = "returned"
    /\ digest.llm_error # Absent
    /\ Len(digest.articles) = 4
    /\ \A i \in 1..4 : Len(digest.articles[i].key_takeaways) > 0
    /\ Len(digest.result[1].top_takeaways) = 3

\* The category digests of a build_digest call, from its articles and from
\* what each category call did alone.
CategoryDigestsOf(b) ==
    [i \in DOMAIN b.names |->
        CategoryResult(b.names[i], ByCategory(b.articles, b.names[i]),
                       b.outcomes[i]).value[1]]

\* The overall call failed: no themes, no must-read, the categories as the
\* category calls made them.
OverallFailureRule ==
    (build.pc = "returned" /\ build.overall.kind = "raise") =>
        /\ build.result[1].overall_themes = <<>>
        /\ build.result[1].must_read = <<>>
        /\ build.result[1].categories = CategoryDigestsOf(build)

\* C21: build_digest never raises, whichever model calls fail and succeed;
\* when the overall call fails, overall_themes and must_read are empty and
\* the category digests are what the category calls made them.
C21_BuildDigestNeverRaises ==
    /\ build.pc # "raised"
    /\ OverallFailureRule

\* The part of C21 that holds: when every answer read has values of the
\* types of the schema, build_digest returns, and the overall failure rule
\* holds in every case.
C21_WhenAnswersValidate ==
    /\ build.pc = "raised" =>
        \/ \E i \in DOMAIN build.outcomes :
                /\ build.outcomes[i].kind = "answer"
                /\ ~AnswerValid(build.outcomes[i].parsed)
        \/ /\ build.overall.kind = "answer"
           /\ \E v \in {build.overall.parsed.overall_themes,
                        build.overall.parsed.must_read_overall} :
                v = Some(JsonNull)
    /\ OverallFailureRule

RunArticles(run, b) ==
    LET idx == SelectSeq([i \in DOMAIN run.selected |-> i],
                         LAMBDA i : run.results[i].success = b)
    IN  [j \in DOMAIN idx |-> run.selected[idx[j]].id]

\* C23: whatever the outcomes of the summaries, a run_analysis run whose
\* loop is over returns; its digest holds exactly the selected articles
\* whose summary succeeded when there is one, it has no digest when there is
\* none, and it reports one error for each article whose summary failed.
C23_DigestOfSuccesses ==
    \A r \in Runs :
        (runs[r].pc \in {"returned", "raised"}) =>
            /\ runs[r].pc = "returned"
            /\ runs[r].digest = IF RunArticles(runs[r], TRUE) = <<>>
                                    THEN Absent
                                    ELSE Some(RunArticles(runs[r], TRUE))
            /\ Len(runs[r].errors) = Len(RunArticles(runs[r], FALSE))

\* The part of C23 that holds: a run that returns has the digest of its
\* successes, or none, and one error for each failure.
C23_WhenBuildDigestReturns ==
    \A r \in Runs :
        runs[r].pc = "returned" =>
            /\ runs[r].digest = IF RunArticles(runs[r], TRUE) = <<>>
                                    THEN Absent
                                    ELSE Some(RunArticles(runs[r], TRUE))
            /\ Len(runs[r].errors) = Len(RunArticles(runs[r], FALSE))

\* The rows of a result come by publish instant, most recent first.
MostRecentFirst(rows) ==
    \A i \in 1..(Len(rows) - 1) : rows[i].published.t >= rows[i + 1].published.t

\* C24: get_pending_articles and get_articles_since return their rows by
\* publish instant, most recent first, whatever the UTC offsets of the
\* stored publish times; get_pending_articles returns PENDING rows only and
\* at most `limit` of them.
C24_MostRecentFirst ==
    /\ last.op \in {"get_pending_articles", "get_articles_since"} =>
            MostRecentFirst(last.rows)
    /\ last.op = "get_pending_articles" =>
            /\ \A i \in DOMAIN last.rows : last.rows[i].status = PENDING
            /\ Len(last.rows) <= last.limit

\* The part of C24 that holds: the order is the one of the instants when
\* the rows returned carry one and the same offset, and get_pending_articles
\* returns PENDING rows only, at most `limit`.
C24_WhenOffsetsAgree ==
    /\ (/\ last.op \in {"get_pending_articles", "get_articles_since"}
        /\ \A i, j \in DOMAIN last.rows :
                last.rows[i].published.off = last.rows[j].published.off)
            => MostRecentFirst(last.rows)
    /\ last.op = "get_pending_articles" =>
            /\ \A i \in DOMAIN last.rows : last.rows[i].status = PENDING
            /\ Len(last.rows) <= last.limit

\* C25: update_article_status(id, s) applied a second time, and
\* update_article_summary applied a second time with the same arguments,
\* leave every article as the first application left it: status, summary,
\* takeaways and action items.
C25_UpdatesIdempotent == [][last'.twice => articles' = articles]_vars

\* The same summary has been stored twice for an article of the table.
C25_Witness ==
    /\ last.twice
    /\ last.op = "update_article_summary"
    /\ \E row \in articles :
        /\ row.id = last.id
        /\ row.action_items = <<"a1">>
        /\ row.status = SUMMARIZED

\* C26: the cache holds at most one row per (kind, key); a set on an
\* existing (kind, key) replaces value and expiry, so that the get that
\* follows returns the value set last and never the one before; and a set
\* leaves the unexpired rows of every other (kind, key) as they were, the
\* same key under another kind included.
C26_OneRowPerKindAndKey ==
    [][/\ \A r1, r2 \in cache' :
            (r1.kind = r2.kind /\ r1.key = r2.key) => r1 = r2
       /\ (/\ lastc'.op = "get"
           /\ lastc'.prev # Absent
           /\ lastc'.prev[1].kind = lastc'.kind
           /\ lastc'.prev[1].key = lastc'.key) =>
                LET given == lastc'.prev[1].ttl_days
                    ttl == IF given # Absent THEN given[1] ELSE DefaultTtlDays
                IN  /\ lastc'.ret \in {Absent, lastc'.prev[1].value}
                    /\ ttl > 0 => lastc'.ret = lastc'.prev[1].value
       /\ (lastc'.op = "set" /\ lastc'.n # lastc.n) =>
                {r \in cache : /\ ~(r.kind = lastc'.kind /\ r.key = lastc'.key)
                               /\ FromIso(r.expires_at) > now'}
                = {r \in cache' : /\ ~(r.kind = lastc'.kind /\ r.key = lastc'.key)
                                  /\ FromIso(r.expires_at) > now'}]_vars

\* A get has returned the second value set for its kind and key, the first
\* one still unexpired when it was replaced, while the same key holds a row
\* under another kind.
C26_Witness ==
    /\ lastc.op = "get"
    /\ lastc.prev # Absent
    /\ lastc.prev[1].kind = lastc.kind
    /\ lastc.prev[1].key = lastc.key
    /\ setlog.replaced
    /\ lastc.ret = lastc.prev[1].value
    /\ \E r \in cache : r.key = lastc.key /\ r.kind # lastc.kind

\* C27: clear(kind) deletes exactly the rows of the kind and returns their
\* number, every row of another kind stays as it is; clear() deletes every
\* row and returns the number of rows; a get of a deleted entry returns
\* nothing afterwards.
C27_ClearDeletesTheKind ==
    [][(lastc'.op = "clear" /\ lastc'.n # lastc.n) =>
            LET deleted == IF lastc'.kind = None THEN cache
                           ELSE {r \in cache : r.kind = lastc'.kind}
            IN  /\ cache' = cache \ deleted
                /\ lastc'.count = Cardinality(deleted)
                /\ \A r \in deleted :
                        CacheGet(cache', r.kind, r.key, now') = Absent]_vars

\* clear("summary") has deleted two rows and left the row of the other kind.
C27_Witness ==
    /\ lastc.op = "clear"
    /\ lastc.kind = "summary"
    /\ lastc.count = 2
    /\ \E r \in cache : r.kind = "other"

\* The step is a call of the cache operation op.
CacheStep(op) == lastc'.op = op /\ lastc'.n # lastc.n

\* What get, stats and clear do to expired rows: get and stats change no
\* row, clear(kind) leaves the rows of the other kinds.
OnlySetCleansUp ==
    /\ (CacheStep("get") \/ CacheStep("stats")) => cache' = cache
    /\ (CacheStep("clear") /\ lastc'.kind # None) =>
            \A r \in cache : r.kind # lastc'.kind => r \in cache'

EveryRequestHasTheTimeout ==
    \A k \in DOMAIN fetch.requests :
        fetch.requests[k].timeout = Some(fetch.timeout)

AResultForEveryFeed ==
    /\ fall.pc = "returned"
    /\ Len(fall.results) = Len(fall.fetch_args)
    /\ \A i \in DOMAIN fall.fetch_args :
            Cardinality({k \in DOMAIN fall.results :
                            fall.results[k].feed_url = fall.fetch_args[i].url})
            = Cardinality({j \in DOMAIN fall.fetch_args :
                            fall.fetch_args[j].url = fall.fetch_args[i].url})

C29_TimeoutOnEveryRequest ==
    /\ [](EveryRequestHasTheTimeout)
    /\ (fetch.pc \in {"request", "waiting", "parse"}) ~> (fetch.pc = "returned")
    /\ (fall.pc = "collect") ~> AResultForEveryFeed

\* fetch_all_feeds has returned and the result of a feed is the timeout of
\* the retry with the browser headers: its host answered the first request
\* with a bot-filter status and the second never.
C29_Witness ==
    /\ AResultForEveryFeed
    /\ \E k \in DOMAIN fall.results :
            /\ ~fall.results[k].success
            /\ fall.results[k].attempts = 2
            /\ fall.results[k].error # Absent
            /\ fall.results[k].error[1][1] = Part("Request timed out after", default_timeout)

\* The date an entry states: that of published_parsed, else that of the
\* text when it is a date.
EntryInstant(entry) ==
    IF entry.published_parsed # Absent THEN Some(entry.published_parsed[1])
    ELSE IF entry.published # Absent /\ entry.published[1].parses
    THEN Some(entry.published[1].dt.t)
    ELSE Absent

\* Every article of the successful result comes from an entry with a date
\* not earlier than now - lookback_hours and with a link, its id is
\* generate_article_id of its URL and its status is PENDING.
FromDatedRecentEntries ==
    (fetch.pc = "returned" /\ fetch.feed # Absent /\ fetch.result[1].success) =>
        /\ Len(fetch.sources) = Len(fetch.result[1].articles)
        /\ \A k \in DOMAIN fetch.result[1].articles :
            LET article == fetch.result[1].articles[k]
                entry == fetch.feed[1].entries[fetch.sources[k]]
            IN  /\ EntryInstant(entry) # Absent
                /\ EntryInstant(entry)[1] >= fetch.now - fetch.lookback_hours
                /\ entry.link # ""
                /\ article.url = entry.link
                /\ article.id = generate_article_id(article.url)
                /\ article.status = PENDING

\* C30: every article in a successful FeedResult comes from an entry with
\* a resolvable publish date that is not earlier than now - lookback_hours
\* and with a non-empty link; an entry with no resolvable date is skipped
\* and never dated with the current time; each article's id is
\* generate_article_id of its URL and its status is PENDING.
C30_ArticlesFromDatedRecentEntries == FromDatedRecentEntries

\* The same on a machine whose local time is UTC.
C30_WhenLocalTimeIsUtc == (fetch.tz = 0) => FromDatedRecentEntries

\* An entry that makes an article: dated within the lookback window and
\* with a link.
ValidEntry(entry) == entry.date = "recent" /\ entry.link # ""

\* The links of the first max_articles valid entries among the first
\* max_articles * 2 entries, in feed order.
FirstValidLinks(entries, max_articles) ==
    LET scanned == SubSeq(entries, 1,
                          IF max_articles * 2 < Len(entries)
                          THEN max_articles * 2 ELSE Len(entries))
        valid == SelectSeq(scanned, ValidEntry)
        kept == SubSeq(valid, 1,
                       IF max_articles < Len(valid) THEN max_articles ELSE Len(valid))
    IN  [k \in DOMAIN kept |-> kept[k].link]

\* The articles of the result are the first max_articles valid entries of
\* the scanned part of the feed.
ArticlesAreFirstValid ==
    LET result == fetch.result[1]
    IN  /\ Len(result.articles) <= fetch.max_articles
        /\ [k \in DOMAIN result.articles |-> result.articles[k].url]
            = FirstValidLinks(fetch.feed[1].entries, fetch.max_articles)

\* C31: for every feed and every max_articles >= 1 the articles fetch_feed
\* returns are exactly the first max_articles valid entries (dated within
\* the lookback window, with a link) among the first 2 * max_articles
\* entries of the feed, in feed order: never more than max_articles, and
\* no entry beyond position 2 * max_articles is examined.
C31_FirstValidEntries ==
    (fetch.pc = "returned" /\ fetch.feed # Absent) => ArticlesAreFirstValid

\* The same for the feeds whose scanned part holds no link that is not an
\* absolute http(s) URL.
C31_WhenNoEntryRaises ==
    (/\ fetch.pc = "returned"
     /\ fetch.feed # Absent
     /\ \A k \in DOMAIN fetch.feed[1].entries :
            (k <= fetch.max_articles * 2 /\ ValidEntry(fetch.feed[1].entries[k]))
                => IsHttpUrl(fetch.feed[1].entries[k].link))
        => ArticlesAreFirstValid

\* The LLM calls of the build_digest call so far: those for the categories
\* and the one for the whole digest.
CategoryCalls == Cardinality({i \in DOMAIN build.outcomes : build.outcomes[i].kind # "none"})
OverallCalls == IF build.overall.kind # "none" THEN 1 ELSE 0
LargeCategories == Cardinality({i \in DOMAIN build.names : Len(ByCategory(build.articles, build.names[i])) > 1})

\* One call for each category of more than one article, then one call for
\* the whole digest when there is a category.
CallsAsCategories ==
    /\ CategoryCalls = LargeCategories
    /\ OverallCalls = (IF build.names # <<>> THEN 1 ELSE 0)

\* C32: for a category with exactly one article build_digest makes no LLM
\* call and uses the article's own summary as the synthesis and the
\* article's own takeaways as top_takeaways; over a whole build_digest call
\* the number of category-synthesis calls is the number of categories with
\* more than one article, followed by exactly one overall-synthesis call
\* when there is at least one category.
C32_SingleArticleCategory ==
    (build.pc \in {"returned", "raised"}) =>
        /\ \A i \in DOMAIN build.category_digests :
            LET d == build.category_digests[i] IN
            (d.article_count = 1) =>
                /\ build.outcomes[i].kind = "none"
                /\ d.articles[1].summary # None => d.synthesis = Text(d.articles[1].summary)
                /\ d.top_takeaways = d.articles[1].key_takeaways
        /\ CallsAsCategories

\* What holds of the calls that return: no call for a category of one
\* article, whose synthesis is the article's summary when it has one and
\* whose top_takeaways are the first three of the article's takeaways, and
\* the calls counted as above.
C32_WhenBuildDigestReturns ==
    (build.pc = "returned") =>
        /\ \A i \in DOMAIN build.category_digests :
            LET d == build.category_digests[i] IN
            (d.article_count = 1) =>
                /\ build.outcomes[i].kind = "none"
                /\ d.articles[1].summary # None => d.synthesis = Text(d.articles[1].summary)
                /\ d.top_takeaways = SubSeqTo(d.articles[1].key_takeaways, 3)
        /\ CallsAsCategories

\* summarize_batch is over: it has returned its results, or on_progress
\* has raised out of it.
BatchOver == batch.pc \in {"returned", "raised"}

\* C33: summarize_batch eventually returns for every finite list of
\* articles and every behaviour of the provider, a provider that never
\* answers included, every LLM call being bounded by a timeout.
C33_BatchReturns ==
    /\ [](\A i \in DOMAIN batch.futures :
            batch.futures[i].request # Absent
                => batch.futures[i].request[1].timeout # Absent)
    /\ (batch.pc = "collect") ~> BatchOver

\* summarize_batch returns unless one of its LLM calls is made without a
\* timeout.
C33_ReturnsUnlessACallHasNoTimeout ==
    (batch.pc = "collect") ~>
        (\/ BatchOver
         \/ \E i \in DOMAIN batch.futures :
                /\ batch.futures[i].request # Absent
                /\ batch.futures[i].request[1].timeout = Absent)

\* The committed table becomes what the whole set call of c makes of it:
\* the row is written and the rows expired at the cleanup are gone.
WholeSet(c) ==
    /\ calls[c].op = "set"
    /\ calls[c].pc = "commit"
    /\ cache' = CacheDeleteExpired(CacheReplace(cache, TxnRow(calls[c])),
                                   calls[c].cleaned_at)

\* The committed table becomes what the whole clear call of c makes of it.
WholeClear(c) ==
    /\ calls[c].op = "clear"
    /\ calls[c].pc = "commit"
    /\ cache' = CacheClearRows(cache, calls[c].kind)

\* C34: each cache operation is atomic with respect to the others, in
\* every interleaving of concurrent set, get and clear calls: the table
\* never holds two rows for one (kind, key); every row that enters it is
\* the whole row of a set call, and a get returns absent or the value of
\* such a row; the table changes only by the insert and the cleanup of one
\* set together, or by one whole clear.
C34_CacheOperationsAtomic ==
    [][/\ \A r1, r2 \in cache' :
            (r1.kind = r2.kind /\ r1.key = r2.key) => r1 = r2
       /\ \A r \in cache' \ cache :
            \E c \in TxnCallers : calls[c].op = "set" /\ r = TxnRow(calls[c])
       /\ lastc' # lastc =>
            \/ lastc'.ret = Absent
            \/ \E r \in cache :
                /\ r.kind = lastc'.kind
                /\ r.key = lastc'.key
                /\ lastc'.ret = Some(json_loads(r.value))
       /\ cache' # cache =>
            \E c \in TxnCallers : WholeSet(c) \/ WholeClear(c)]_vars

\* Two set calls contend for one pair: one has inserted and cleaned up and
\* is about to commit a table that differs from the committed one, which
\* holds an expired row; the other waits for the write lock.
C34_Witness ==
    \E c, d \in TxnCallers :
        /\ c # d
        /\ lock = c
        /\ calls[c].op = "set" /\ calls[c].pc = "commit"
        /\ calls[d].op = "set" /\ calls[d].pc = "insert"
        /\ calls[c].kind = calls[d].kind /\ calls[c].key = calls[d].key
        /\ calls[c].value # calls[d].value
        /\ pending # cache
        /\ CacheDeleteExpired(cache, now) # cache
        /\ lastc.op = "get" /\ lastc.ret # Absent

\* The article of this id is stored with status PENDING.
IsPending(id) == \E row \in articles : row.id = id /\ row.status = PENDING

\* C35: every article stored with status PENDING eventually leaves PENDING
\* (becomes SUMMARIZED or FAILED), run_analysis being run again and again
\* and each of its LLM calls returning or failing, however long after the
\* publish time of the article the first run takes place.
C35_PendingEventuallyLeaves ==
    \A id \in Ids : IsPending(id) ~> ~IsPending(id)

\* A PENDING article that a run has selected leaves PENDING.
C35_WhenARunSelectsIt ==
    \A id \in Ids :
        (/\ IsPending(id)
         /\ \E r \in Runs : \E i \in DOMAIN runs[r].selected :
                runs[r].selected[i].id = id)
            ~> ~IsPending(id)

\* The article is FAILED with an empty summary after the step, and no run
\* that selects its articles in the step selects it.
StaysFailed(row) ==
    /\ \E kept \in articles' :
            kept.id = row.id /\ kept.status = FAILED /\ kept.summary = None
    /\ \A r \in Runs :
            runs'[r].selected # runs[r].selected =>
                \A i \in DOMAIN runs'[r].selected : runs'[r].selected[i].id # row.id

\* C36: FAILED is absorbing under pipeline runs: once the stored status of
\* an article is FAILED, no later run_analysis selects it, no later
\* ingestion of its URL changes it, and its status stays FAILED and its
\* summary empty.
C36_FailedIsAbsorbing ==
    [][\A row \in articles : row.status = FAILED => StaysFailed(row)]_vars

\* A FAILED article stays as it is unless a run that selected it while it
\* was PENDING is still at work.
C36_WhenNoEarlierRunHoldsIt ==
    [][\A row \in articles :
            (/\ row.status = FAILED
             /\ row.summary = None
             /\ \A r \in Runs :
                    runs[r].pc \in {"summarize", "update"} =>
                        \A i \in DOMAIN runs[r].selected :
                            runs[r].selected[i].id # row.id)
                => StaysFailed(row)]_vars

\* C37: in every reachable state of the store, each article whose status
\* is SUMMARIZED has a non-empty summary text: run_analysis marks an
\* article SUMMARIZED only when the LLM response contained a summary.
C37_SummarizedHasSummary ==
    \A row \in articles :
        row.status = SUMMARIZED => row.summary \notin {None, ""}

\* A SUMMARIZED article has the summary of a successful SummaryResult, the
\* empty text standing for a result without summary.
C37_SummaryOfASuccess ==
    \A row \in articles :
        row.status = SUMMARIZED =>
            \E parsed \in Parsed :
                row.summary = IF parsed.summary = None THEN "" ELSE parsed.summary

\* The call that has just returned is a set with ttl_days <= 0.
SetWithoutTtl(call) ==
    /\ call.op = "set"
    /\ call.ttl_days # Absent
    /\ call.ttl_days[1] <= 0

Failures(table, feed_url) ==
    IF feed_url \in DOMAIN table THEN table[feed_url].consecutive_failures ELSE 0

\* C39: for every sequence of update_feed_status calls on one feed URL the
\* stored consecutive_failures is the number of failure reports made since
\* the most recent success report, or since the first report: it is 1 after
\* a first failure, grows by exactly 1 with each further failure and is
\* reset to 0 by every success; the counters of other feeds are unchanged.
C39_ConsecutiveFailures ==
    [][(last'.op = "update_feed_status" /\ last'.n # last.n) =>
            /\ last'.feed_url \in DOMAIN feed_status'
            /\ feed_status'[last'.feed_url].consecutive_failures =
                    IF last'.success THEN 0
                    ELSE Failures(feed_status, last'.feed_url) + 1
            /\ \A u \in StatusUrls \ {last'.feed_url} :
                    /\ u \in DOMAIN feed_status' <=> u \in DOMAIN feed_status
                    /\ Failures(feed_status', u) = Failures(feed_status, u)]_vars

\* Two failures of one feed have been counted after a success of it, while
\* another feed holds a counter of its own.
C39_Witness ==
    /\ last.op = "update_feed_status"
    /\ ~last.success
    /\ feed_status[last.feed_url].consecutive_failures = 2
    /\ feed_status[last.feed_url].last_success # Absent
    /\ \E u \in DOMAIN feed_status :
            u # last.feed_url /\ feed_status[u].consecutive_failures = 1

\* The lines of the crontab file of this text, blank lines at the end
\* included.
FileLines(text) == splitlines(text)

\* Line i stands in the managed block of some label: between the first
\* start marker and the first end marker of the label.
InBlock(lines, i) ==
    \E l \in CronLabels :
        /\ Contains(lines, cron_marker_start(l))
        /\ Contains(lines, cron_marker_end(l))
        /\ index(lines, cron_marker_start(l)) <= i
        /\ i <= index(lines, cron_marker_end(l))

\* The lines outside the managed blocks, in their order.
OutsideLines(lines) ==
    LET F[i \in 0..Len(lines)] ==
            IF i = 0 THEN <<>>
            ELSE IF InBlock(lines, i) THEN F[i - 1]
            ELSE Append(F[i - 1], lines[i])
    IN  F[Len(lines)]

\* The lines without the blank lines at their end.
RECURSIVE WithoutBlankTail(_)
WithoutBlankTail(lines) ==
    IF lines # <<>> /\ lines[Len(lines)] = ""
        THEN WithoutBlankTail(SubSeq(lines, 1, Len(lines) - 1))
        ELSE lines

\* Every line of a is kept in b, in the order of a.
RECURSIVE IsSubsequence(_, _)
IsSubsequence(a, b) ==
    IF a = <<>> THEN TRUE
    ELSE IF b = <<>> THEN FALSE
    ELSE IF a[1] = b[1] THEN IsSubsequence(Tail(a), Tail(b))
    ELSE IsSubsequence(a, Tail(b))

\* How often the line occurs.
Occurrences(lines, x) == Cardinality({i \in 1..Len(lines) : lines[i] = x})

\* The crontab holds exactly one managed block for each installed label,
\* the block of the last plan installed for it, which
\* get_cron_managed_block returns.
OneBlockPerLabel ==
    \A l \in CronLabels :
        cron.installed[l] # Absent =>
            /\ Occurrences(FileLines(crontab), cron_marker_start(l)) = 1
            /\ Occurrences(FileLines(crontab), cron_marker_end(l)) = 1
            /\ get_cron_managed_block(crontab, l) =
                    [raised |-> FALSE,
                     block |-> Some(render_cron_managed_block(cron.installed[l][1]))]

\* With replace_existing = False and a block of the label present,
\* install_cron raises and leaves the crontab as it was.
RefusesToReplace ==
    (/\ cron.op = "install_cron"
     /\ ~cron.replace_existing
     /\ Contains(FileLines(cron.before), cron_marker_start(cron.plan.label)))
        => cron.raised /\ crontab = cron.before

\* C40: after any sequence of install_cron calls with replace_existing =
\* True the crontab contains exactly one managed block for each installed
\* label, the block of the last plan installed for the label, which
\* get_cron_managed_block returns, and every crontab line outside the
\* managed blocks is preserved in its original order; with
\* replace_existing = False and a block present install_cron raises and
\* leaves the crontab unchanged.
C40_ManagedBlocks ==
    /\ OneBlockPerLabel
    /\ RefusesToReplace
    /\ (cron.op = "install_cron" /\ ~cron.raised) =>
            IsSubsequence(OutsideLines(FileLines(cron.before)),
                          OutsideLines(FileLines(crontab)))

\* C40 as it holds: the same, the lines preserved being the lines outside
\* the managed blocks other than the blank lines at the end of the crontab.
C40_ManagedBlocksButBlankTail ==
    /\ OneBlockPerLabel
    /\ RefusesToReplace
    /\ (cron.op = "install_cron" /\ ~cron.raised) =>
            IsSubsequence(OutsideLines(WithoutBlankTail(FileLines(cron.before))),
                          OutsideLines(FileLines(crontab)))

\* The block of a label has been replaced by the block of another plan in
\* a crontab that ended with a blank line; the block of the other label
\* comes after it, and a user line stands between the two blocks.
C40_Witness ==
    /\ cron.op = "install_cron"
    /\ ~cron.raised
    /\ cron.replace_existing
    /\ \A l \in CronLabels : cron.installed[l] # Absent
    /\ Contains(FileLines(cron.before), cron_marker_start(cron.plan.label))
    /\ get_cron_managed_block(cron.before, cron.plan.label).block
            # Some(render_cron_managed_block(cron.plan))
    /\ FileLines(cron.before) # WithoutBlankTail(FileLines(cron.before))
    /\ LET lines == FileLines(crontab) IN
        \E i \in 1..Len(lines) :
            /\ ~InBlock(lines, i) /\ lines[i] \in {"u1", "u2"}
            /\ index(lines, cron_marker_end(cron.plan.label)) < i
            /\ \E j \in (i + 1)..Len(lines) : InBlock(lines, j)

====
